---------------------------- MODULE Spec2Model ----------------------------
(***************************************************************************)
(* Model of the request handlers of backend/src/handlers.rs: the           *)
(* process-wide rate gate (LAST_API_CALL, RATE_LIMITED_UNTIL), the         *)
(* cache-aside handlers get_tokens, get_token, get_historical_data, the    *)
(* handlers toggle_favorite, get_favorites, search_tokens and get_stats,   *)
(* the background task that get_tokens spawns to write the fetched tokens  *)
(* to the tokens collection, and the three fetch functions of              *)
(* backend/src/crypto_service.rs.                                          *)
(*                                                                         *)
(* Every handler is an async fn: it is modelled as one action per stretch  *)
(* of code between two suspension points that touch shared state (a gate   *)
(* lock, a store operation, the upstream call).  Time is whole seconds.    *)
(*                                                                         *)
(* The specifications share the actions:                                   *)
(*   Spec        get_tokens, get_token, toggle_favorite and the background *)
(*               tasks racing on the tokens collection;                    *)
(*   SpecGate    the gate under concurrent requests while the clock runs   *)
(*               across the backoff window;                                *)
(*   SpecFn      can_make_api_call alone, from every gate state and clock  *)
(*               reading around the end of a backoff window;               *)
(*   SpecHistory get_historical_data and the history collection;           *)
(*   SpecToggle  toggle_favorite, one toggle at a time;                    *)
(*   SpecSearch  search_tokens over a collection get_token fills;          *)
(*   SpecStats   get_stats and get_favorites over every small collection,  *)
(*               with a find that can fail;                                *)
(*   SpecSave    the background task with upserts that can fail;           *)
(*   SpecUpstream the handlers that call upstream, for every reply of the  *)
(*               upstream;                                                 *)
(*   SpecAttempt the same handlers and the gate while the clock runs;      *)
(*   SpecLocal   the handlers that work on the store alone, beside         *)
(*               get_tokens requests that move the gate;                   *)
(*   SpecRefresh list refreshes whose background tasks overlap;            *)
(*   SpecLocks   the gate functions at the grain of their two mutexes,     *)
(*               with the fairness of tokio's Mutex.                       *)
(***************************************************************************)
EXTENDS Integers, Sequences, FiniteSets, TLC

(* ------------------------------ bounds -------------------------------- *)

\* The gate specification (SpecGate) runs the clock for GateSlack seconds
\* from the start, and up to GateSlack seconds beyond the backoff window.
GateSlack == 2

\* Number of background save tasks that may be pending at once.
MaxTasks == 1

\* The history, attempt and refresh specifications (SpecHistory,
\* SpecAttempt, SpecRefresh) run the clock for this many seconds.
MaxTimeHistory == 2

\* The gate-function specification (SpecFn) draws the clock and both
\* timestamps from FnWindow seconds either side of the backoff window.
FnWindow == 2

(* ------------------------- program constants -------------------------- *)

MIN_REQUEST_INTERVAL_SECS == 2
RATE_LIMIT_BACKOFF_SECS == 60
RETRY_AFTER_TOKENS == 60
RETRY_AFTER_HISTORY == 30

Procs == {"r1", "r2"}
TokenIds == {"bitcoin", "eth"}

(* Option<T>: None is the empty sequence, Some(x) is <<x>>. *)
None == <<>>
Some(x) == <<x>>
IsSome(o) == o # <<>>
Unwrap(o) == o[1]

VARIABLES
    now,                 \* Utc::now(), in seconds
    LAST_API_CALL,       \* Option<time>
    RATE_LIMITED_UNTIL,  \* Option<time>
    held,                \* the request holding the guard of each of the two mutexes
    store,               \* the tokens collection, in storage order
    history,             \* the price_history collection, in storage order
    tasks,               \* background save tasks: the tokens each has still to write
    pc,                  \* where each request is
    kind,                \* which handler each request runs
    token_id,            \* the id a get_token / toggle_favorite request names
    cached_tokens,       \* get_tokens: the cached tokens, sorted (dropped on return)
    outcome,             \* how the gate check and the upstream call ended
    tokens,              \* the tokens the handler's match bound: what the upstream
                         \* call returned, or the token toggle_favorite found
    query,               \* search_tokens: the q parameter
    data,                \* get_historical_data: the series the upstream call returned
    response,            \* crypto_service: the reply of the upstream to send()
    new_favorite,        \* toggle_favorite: the value to write (dropped on return)
    resp                 \* the HTTP response

gate == <<LAST_API_CALL, RATE_LIMITED_UNTIL>>

\* The two tokio mutexes, by the names of the statics they guard.
Locks == {"LAST_API_CALL", "RATE_LIMITED_UNTIL"}
locals == <<kind, token_id, cached_tokens, outcome, tokens, query, data, response,
            new_favorite, resp>>
vars == <<now, LAST_API_CALL, RATE_LIMITED_UNTIL, held, store, history, tasks, pc, kind, token_id,
          cached_tokens, outcome, tokens, query, data, response, new_favorite, resp>>

(* ------------------------------- data --------------------------------- *)

\* A CryptoToken, reduced to its key, the market field the cache is sorted
\* by (standing for every field of the $set document) and the favourite flag.
CryptoToken(id, cap, fav) == [token_id |-> id, market_cap |-> cap, is_favorite |-> fav]

\* What the conversion of a CoinGeckoMarket yields: is_favorite is false.
MarketToken(id, cap) == CryptoToken(id, cap, FALSE)

RECURSIVE DistinctIds(_)
DistinctIds(s) ==
    \/ s = <<>>
    \/ /\ \A i \in 1..(Len(s) - 1) : s[i].token_id # s[Len(s)].token_id
       /\ DistinctIds(SubSeq(s, 1, Len(s) - 1))

\* The markets the upstream reports at one time or another: bitcoin at
\* two market caps, eth at the higher of them.
Markets == { MarketToken("bitcoin", 100), MarketToken("bitcoin", 200), MarketToken("eth", 200) }

\* The lists the /coins/markets endpoint may return: any markets, no id
\* twice, in any order.
MarketLists ==
    { s \in UNION { [1..n -> Markets] : n \in 0..Cardinality(TokenIds) } : DistinctIds(s) }

NoResponse == [status |-> 0, tokens |-> <<>>, error |-> "", retry_after |-> 0]
OkTokens(ts) == [status |-> 200, tokens |-> ts, error |-> "", retry_after |-> 0]
OkMessage == [status |-> 200, tokens |-> <<>>, error |-> "message", retry_after |-> 0]

\* The not-found answer sent with a success status.
NotFoundAsOk == [status |-> 200, tokens |-> <<>>, error |-> "Token not found", retry_after |-> 0]

NotFound == [status |-> 404, tokens |-> <<>>, error |-> "Token not found", retry_after |-> 0]
Unavailable(retry) ==
    [status |-> 503, tokens |-> <<>>, error |-> "temporarily unavailable", retry_after |-> retry]
BadRequest ==
    [status |-> 400, tokens |-> <<>>, error |-> "Search query is required", retry_after |-> 0]
DatabaseError ==
    [status |-> 500, tokens |-> <<>>, error |-> "Database error", retry_after |-> 0]
OkStats(stats) ==
    [status |-> 200, tokens |-> <<>>, stats |-> stats, error |-> "", retry_after |-> 0]
OkSeries(series) ==
    [status |-> 200, tokens |-> <<>>, series |-> series, error |-> "", retry_after |-> 0]

(* ------------------------------ the gate ------------------------------ *)

\* The window taken to include its last instant.
rate_limited_inclusive(until, t) == IsSome(until) /\ t <= Unwrap(until)

\* can_make_api_call, first lock: the backoff window is still open.
rate_limited(until, t) == IsSome(until) /\ t < Unwrap(until)

\* The interval taken to include its last instant.
too_soon_inclusive(last, t) == IsSome(last) /\ t - Unwrap(last) <= MIN_REQUEST_INTERVAL_SECS

\* can_make_api_call, second lock: the last call is too recent.
too_soon(last, t) == IsSome(last) /\ t - Unwrap(last) < MIN_REQUEST_INTERVAL_SECS

\* The backoff computed from the minimum interval instead of the backoff window.
backoff_until_interval(t) == Some(t + MIN_REQUEST_INTERVAL_SECS)

\* record_rate_limit: the new value of RATE_LIMITED_UNTIL.
backoff_until(t) == Some(t + RATE_LIMIT_BACKOFF_SECS)

\* The call left unrecorded.
call_unrecorded(t) == None

\* record_api_call: the new value of LAST_API_CALL.
call_recorded(t) == Some(t)


(* ------------------------------ the store ----------------------------- *)

\* An unstable placement: x goes before the elements of equal market_cap.
RECURSIVE insert_sorted_unstable(_, _)
insert_sorted_unstable(sorted, x) ==
    IF sorted = <<>> THEN <<x>>
    ELSE IF Head(sorted).market_cap > x.market_cap
         THEN <<Head(sorted)>> \o insert_sorted_unstable(Tail(sorted), x)
         ELSE <<x>> \o sorted

\* Where sort_by puts x in a list already sorted by market_cap descending:
\* after every element whose market_cap is not smaller (the sort is stable).
RECURSIVE insert_sorted(_, _)
insert_sorted(sorted, x) ==
    IF sorted = <<>> THEN <<x>>
    ELSE IF Head(sorted).market_cap >= x.market_cap
         THEN <<Head(sorted)>> \o insert_sorted(Tail(sorted), x)
         ELSE <<x>> \o sorted

\* cached_tokens.sort_by(|a, b| b.market_cap.partial_cmp(&a.market_cap)...)
RECURSIVE sort_by_market_cap(_)
sort_by_market_cap(docs) ==
    IF docs = <<>> THEN <<>>
    ELSE insert_sorted(sort_by_market_cap(SubSeq(docs, 1, Len(docs) - 1)), docs[Len(docs)])

\* collection.find_one(doc! { "token_id": id }): the first matching document.
matching(coll, id) == { i \in DOMAIN coll : coll[i].token_id = id }
first_match(coll, id) == CHOOSE i \in matching(coll, id) : \A j \in matching(coll, id) : i <= j

\* A find_one that ignores its filter: the first document of the collection.
find_one_any(coll, id) == IF coll = <<>> THEN None ELSE Some(coll[1])

find_one(coll, id) ==
    IF matching(coll, id) = {} THEN None ELSE Some(coll[first_match(coll, id)])

\* An upsert whose $set carries is_favorite with the other fields.
upsert_token_overwriting(coll, token) ==
    IF matching(coll, token.token_id) = {}
    THEN Append(coll, CryptoToken(token.token_id, token.market_cap, FALSE))
    ELSE [coll EXCEPT ![first_match(coll, token.token_id)] = token]

\* An insert in place of the upsert.
upsert_token_inserting(coll, token) ==
    Append(coll, CryptoToken(token.token_id, token.market_cap, FALSE))

\* An update that writes nothing.
upsert_token_dropped(coll, token) == coll

\* One update_one of save_tokens_to_cache, with upsert(true): $set writes
\* the market fields of the first document with the token's id and leaves
\* is_favorite alone; with no such document one is inserted, and
\* $setOnInsert gives it is_favorite = false.
upsert_token(coll, token) ==
    IF matching(coll, token.token_id) = {}
    THEN Append(coll, CryptoToken(token.token_id, token.market_cap, FALSE))
    ELSE [coll EXCEPT ![first_match(coll, token.token_id)].market_cap = token.market_cap]

\* An update that marks the token a favourite whatever value it is given.
set_favorite_true(coll, id, fav) ==
    IF matching(coll, id) = {} THEN coll
    ELSE [coll EXCEPT ![first_match(coll, id)].is_favorite = TRUE]

\* toggle_favorite's update_one, without upsert: $set is_favorite on the
\* first document with the id, nothing when there is none.
set_favorite(coll, id, fav) ==
    IF matching(coll, id) = {} THEN coll
    ELSE [coll EXCEPT ![first_match(coll, id)].is_favorite = fav]

(* ------------------------- the history series ------------------------ *)

\* An f64 is held in tenths, an i64 in units.  `x as i64` drops the
\* fraction (no value here is negative); `n as f64` is exact.
as_i64(x) == x \div 10
as_f64(n) == n * 10

\* CoinGeckoHistoricalData: three series of [timestamp, value] pairs.
HistoricalData(prices, market_caps, total_volumes) ==
    [prices |-> prices, market_caps |-> market_caps, total_volumes |-> total_volumes]

\* What /coins/{id}/market_chart may return: no points, or one point per
\* series at a whole-millisecond timestamp, at one of two times.
HistoricalSeries ==
    { HistoricalData(<<>>, <<>>, <<>>),
      HistoricalData(<< <<10, 15>> >>, << <<10, 25>> >>, << <<10, 35>> >>),
      HistoricalData(<< <<20, 16>> >>, << <<20, 26>> >>, << <<20, 36>> >>) }

\* BSON values: the sub-document doc! { "t": t, "p": p }, and the array
\* [t, p] that serialising a tuple (i64, f64) writes.
BsonDocument(t, p) == [bson |-> "document", t |-> t, p |-> p]
BsonArray(t, p) == [bson |-> "array", t |-> t, p |-> p]

\* data.prices.iter().map(|p| (p[0] as i64, p[1])): Vec<(i64, f64)>.
to_tuples(series) == [i \in DOMAIN series |-> <<as_i64(series[i][1]), series[i][2]>>]

\* history.prices.iter().map(|(t, p)| vec![*t as f64, *p]): Vec<Vec<f64>>.
to_pairs(tuples) == [i \in DOMAIN tuples |-> <<as_f64(tuples[i][1]), tuples[i][2]>>]

\* The PriceHistory built from the fetched data, reduced to the key and
\* the three series.
PriceHistory(id, fetched) ==
    [token_id |-> id,
     prices |-> to_tuples(fetched.prices),
     market_caps |-> to_tuples(fetched.market_caps),
     total_volumes |-> to_tuples(fetched.total_volumes)]

\* The document that serialising a PriceHistory writes: every field, each
\* tuple an array.
to_arrays(tuples) == [i \in DOMAIN tuples |-> BsonArray(tuples[i][1], tuples[i][2])]
PriceHistoryDocument(h) ==
    [token_id |-> h.token_id,
     prices |-> to_arrays(h.prices),
     market_caps |-> to_arrays(h.market_caps),
     total_volumes |-> to_arrays(h.total_volumes)]

\* The $set document of get_historical_data: token_id and prices, each
\* price a sub-document { t, p }; market_caps and total_volumes are not in it.
history_set(h) ==
    [token_id |-> h.token_id,
     prices |-> [i \in DOMAIN h.prices |-> BsonDocument(h.prices[i][1], h.prices[i][2])]]

\* $set applied to a document: the fields named are written, the others kept.
apply_set(document, set) ==
    [f \in (DOMAIN document) \cup (DOMAIN set) |->
        IF f \in DOMAIN set THEN set[f] ELSE document[f]]

\* update_one(filter, { $set }, upsert(true)) on the history collection.
upsert_history(coll, h) ==
    IF matching(coll, h.token_id) = {}
    THEN Append(coll, history_set(h))
    ELSE [coll EXCEPT ![first_match(coll, h.token_id)] = apply_set(@, history_set(h))]

\* Deserialising a document into a PriceHistory: every field of the struct
\* must be there, and every element of a series must be an array [t, v].
PriceHistoryFields == {"token_id", "prices", "market_caps", "total_volumes"}
is_tuples(array) == \A i \in DOMAIN array : array[i].bson = "array"
deserializes(document) ==
    /\ PriceHistoryFields \subseteq DOMAIN document
    /\ is_tuples(document.prices)
    /\ is_tuples(document.market_caps)
    /\ is_tuples(document.total_volumes)
from_arrays(array) == [i \in DOMAIN array |-> <<array[i].t, array[i].p>>]
deserialize(document) ==
    [token_id |-> document.token_id,
     prices |-> from_arrays(document.prices),
     market_caps |-> from_arrays(document.market_caps),
     total_volumes |-> from_arrays(document.total_volumes)]

\* `if let Ok(Some(history)) = collection.find_one(filter, None).await`:
\* the first document with the id, when there is one and it deserialises.
find_history(coll, id) ==
    IF matching(coll, id) # {} /\ deserializes(coll[first_match(coll, id)])
    THEN Some(deserialize(coll[first_match(coll, id)]))
    ELSE None

\* The cached PriceHistory converted back to the API format.
api_format(h) ==
    HistoricalData(to_pairs(h.prices), to_pairs(h.market_caps), to_pairs(h.total_volumes))

(* ---------------------------- the responses --------------------------- *)

\* The cached tokens returned in place of the fetched ones.
get_tokens_cached_response(fetched, cached) == OkTokens(cached)

\* The cached tokens returned even when there are none.
get_tokens_fallback_always(cached) == OkTokens(cached)

\* The fetched tokens given the favourite flag of the cached ones.
get_tokens_fetched_response_merged(fetched, cached) ==
    OkTokens([i \in DOMAIN fetched |->
        [fetched[i] EXCEPT !.is_favorite =
            \E j \in DOMAIN cached :
                cached[j].token_id = fetched[i].token_id /\ cached[j].is_favorite]])

\* get_tokens, the arm of a non-empty Ok: the fetched tokens are returned.
get_tokens_fetched_response(fetched, cached) == OkTokens(fetched)

\* The fall-through answering 503 whatever the cache holds.
get_tokens_fallback_unavailable(cached) == Unavailable(RETRY_AFTER_TOKENS)

\* get_tokens after the match: the cached tokens when there are any, else 503.
get_tokens_fallback(cached) ==
    IF cached # <<>> THEN OkTokens(cached) ELSE Unavailable(RETRY_AFTER_TOKENS)

\* Every handler answering as get_tokens does.
no_data_response_unavailable(p) == get_tokens_fallback(cached_tokens[p])

\* What a request answers when it made no successful upstream call.
no_data_response(p) ==
    IF kind[p] = "get_tokens" THEN get_tokens_fallback(cached_tokens[p])
    ELSE IF kind[p] = "get_historical_data" THEN Unavailable(RETRY_AFTER_HISTORY)
    ELSE NotFound

\* get_historical_data with the gate closed: the cached series, else 503.
get_historical_data_cached_response(coll, id) ==
    IF IsSome(find_history(coll, id))
    THEN OkSeries(api_format(Unwrap(find_history(coll, id))))
    ELSE Unavailable(RETRY_AFTER_HISTORY)

\* No error taken to signal rate limiting.
signals_rate_limit_never(err) == FALSE

\* e.to_string().to_lowercase() contains "429" or "rate".
signals_rate_limit(err) == err = "err_rate"

(* ------------------------------- Init --------------------------------- *)

\* The tokens collection outlives the process: at start it is empty (a
\* first start) or holds what an earlier run wrote.
StoresAtStart == { <<>>, <<MarketToken("bitcoin", 100), MarketToken("eth", 200)>> }

\* No request is running.
NoRequests ==
    /\ held = [m \in Locks |-> None]
    /\ pc = [p \in Procs |-> "idle"]
    /\ kind = [p \in Procs |-> "none"]
    /\ token_id = [p \in Procs |-> ""]
    /\ cached_tokens = [p \in Procs |-> <<>>]
    /\ outcome = [p \in Procs |-> "none"]
    /\ tokens = [p \in Procs |-> <<>>]
    /\ query = [p \in Procs |-> None]
    /\ data = [p \in Procs |-> None]
    /\ response = [p \in Procs |-> None]
    /\ new_favorite = [p \in Procs |-> FALSE]
    /\ resp = [p \in Procs |-> NoResponse]

\* lazy_static: both gate timestamps are None; no request is running.
Init ==
    /\ now = 0
    /\ LAST_API_CALL = None
    /\ RATE_LIMITED_UNTIL = None
    /\ store \in StoresAtStart
    /\ history = <<>>
    /\ tasks = [k \in 1..MaxTasks |-> <<>>]
    /\ NoRequests

(* ------------------------------ the clock ----------------------------- *)

\* One second passes.
Tick(limit) ==
    /\ now < limit
    /\ now' = now + 1
    /\ UNCHANGED <<held, gate, store, history, tasks, pc, locals>>

\* A quiet stretch passes: the backoff window less the minimum interval.
LongTick(limit) ==
    /\ now + (RATE_LIMIT_BACKOFF_SECS - MIN_REQUEST_INTERVAL_SECS) <= limit
    /\ now' = now + (RATE_LIMIT_BACKOFF_SECS - MIN_REQUEST_INTERVAL_SECS)
    /\ UNCHANGED <<held, gate, store, history, tasks, pc, locals>>

(* --------------------------- the gate, steps -------------------------- *)

\* The handler returns r: its locals are dropped.
respond(p, r) ==
    /\ resp' = [resp EXCEPT ![p] = r]
    /\ pc' = [pc EXCEPT ![p] = "done"]
    /\ cached_tokens' = [cached_tokens EXCEPT ![p] = <<>>]
    /\ new_favorite' = [new_favorite EXCEPT ![p] = FALSE]

\* The handler goes on to its next suspension point.
goto(p, label) ==
    /\ pc' = [pc EXCEPT ![p] = label]
    /\ UNCHANGED <<resp, cached_tokens, new_favorite>>

\* A request that leaves the gate or the upstream call without data answers
\* at once: nothing it does from there suspends.  The exception is
\* get_historical_data at a closed gate, which reads the history collection.
answer_no_data(p, how) ==
    /\ outcome' = [outcome EXCEPT ![p] = how]
    /\ IF kind[p] = "get_historical_data" /\ how = "closed"
       THEN goto(p, "history_find")
       ELSE respond(p, no_data_response(p))

\* The check that clears a backoff window it finds expired.
can_make_api_call_rate_limited_clearing(p) ==
    /\ pc[p] = "gate_rate_limited"
    /\ IF rate_limited(RATE_LIMITED_UNTIL, now)
       THEN answer_no_data(p, "closed")
       ELSE goto(p, "gate_last_call") /\ UNCHANGED outcome
    /\ RATE_LIMITED_UNTIL' = IF rate_limited(RATE_LIMITED_UNTIL, now)
                             THEN RATE_LIMITED_UNTIL ELSE None
    /\ UNCHANGED <<now, held, response, history, query, data, LAST_API_CALL, store, tasks, kind,
                   token_id, tokens>>

\* can_make_api_call, lines 18-25: under the RATE_LIMITED_UNTIL lock.
can_make_api_call_rate_limited(p) ==
    /\ pc[p] = "gate_rate_limited"
    /\ IF rate_limited(RATE_LIMITED_UNTIL, now)
       THEN answer_no_data(p, "closed")
       ELSE goto(p, "gate_last_call") /\ UNCHANGED outcome
    /\ UNCHANGED <<now, held, response, history, query, data, gate, store, tasks, kind, token_id, tokens>>

\* can_make_api_call, lines 27-33: under the LAST_API_CALL lock.
can_make_api_call_last_call(p) ==
    /\ pc[p] = "gate_last_call"
    /\ IF too_soon(LAST_API_CALL, now)
       THEN answer_no_data(p, "closed")
       ELSE goto(p, "record_api_call") /\ UNCHANGED outcome
    /\ UNCHANGED <<now, held, response, history, query, data, gate, store, tasks, kind, token_id, tokens>>

\* record_api_call; the upstream request is sent as soon as it returns.
record_api_call(p) ==
    /\ pc[p] = "record_api_call"
    /\ LAST_API_CALL' = call_recorded(now)
    /\ goto(p, "fetch")
    /\ UNCHANGED <<now, held, response, history, query, data, RATE_LIMITED_UNTIL, store, tasks, kind, token_id, outcome, tokens>>

\* The throttle recorded as a call as well: LAST_API_CALL is set too.
record_rate_limit_recording_call(p) ==
    /\ pc[p] = "record_rate_limit"
    /\ RATE_LIMITED_UNTIL' = backoff_until(now)
    /\ LAST_API_CALL' = call_recorded(now)
    /\ respond(p, no_data_response(p))
    /\ UNCHANGED <<now, held, response, history, query, data, store, tasks, kind, token_id,
                   outcome, tokens>>

\* record_rate_limit, then the rest of the handler.
record_rate_limit(p) ==
    /\ pc[p] = "record_rate_limit"
    /\ RATE_LIMITED_UNTIL' = backoff_until(now)
    /\ respond(p, no_data_response(p))
    /\ UNCHANGED <<now, held, response, history, query, data, LAST_API_CALL, store, tasks, kind, token_id, outcome, tokens>>

\* The failed call made again: back to record_api_call and a second fetch.
fetch_err_retrying(p, err) ==
    /\ pc[p] = "fetch"
    /\ outcome' = [outcome EXCEPT ![p] = err]
    /\ response' = [response EXCEPT ![p] = None]
    /\ goto(p, "record_api_call")
    /\ UNCHANGED <<now, held, history, query, data, gate, store, tasks, kind, token_id, tokens>>

\* The upstream call returns Err(e): the Err arm of the handler's match.
fetch_err(p, err) ==
    /\ pc[p] = "fetch"
    /\ IF signals_rate_limit(err)
       THEN /\ outcome' = [outcome EXCEPT ![p] = err]
            /\ goto(p, "record_rate_limit")
       ELSE answer_no_data(p, err)
    /\ UNCHANGED <<now, held, response, history, query, data, gate, store, tasks, kind, token_id, tokens>>

\* The response is sent; the worker takes the next request.
finish(p) ==
    /\ pc[p] = "done"
    /\ pc' = [pc EXCEPT ![p] = "idle"]
    /\ kind' = [kind EXCEPT ![p] = "none"]
    /\ token_id' = [token_id EXCEPT ![p] = ""]
    /\ outcome' = [outcome EXCEPT ![p] = "none"]
    /\ tokens' = [tokens EXCEPT ![p] = <<>>]
    /\ query' = [query EXCEPT ![p] = None]
    /\ data' = [data EXCEPT ![p] = None]
    /\ response' = [response EXCEPT ![p] = None]
    /\ resp' = [resp EXCEPT ![p] = NoResponse]
    /\ UNCHANGED <<now, held, history, gate, store, tasks, cached_tokens, new_favorite>>

(* ------------------------------ get_tokens ---------------------------- *)

\* get_cached_tokens: every document of the collection, sorted.
get_cached_tokens(coll) == sort_by_market_cap(coll)

\* get_tokens, line 108.
get_tokens_read_cache(p) ==
    /\ pc[p] = "idle"
    /\ kind' = [kind EXCEPT ![p] = "get_tokens"]
    /\ cached_tokens' = [cached_tokens EXCEPT ![p] = get_cached_tokens(store)]
    /\ pc' = [pc EXCEPT ![p] = "gate_rate_limited"]
    /\ UNCHANGED <<now, held, response, history, query, data, gate, store, tasks, token_id, outcome, tokens, new_favorite, resp>>

\* The slot tokio::spawn gives the new background task.
free_slots == { k \in DOMAIN tasks : tasks[k] = <<>> }
spawn_save(tokens_to_save) ==
    /\ free_slots # {}
    /\ tasks' = [tasks EXCEPT ![CHOOSE k \in free_slots : \A j \in free_slots : k <= j]
                                 = tokens_to_save]

\* fetch_top_tokens returns Ok(tokens): lines 115-131.
fetch_top_tokens_ok(p, fetched) ==
    /\ pc[p] = "fetch"
    /\ kind[p] = "get_tokens"
    /\ tokens' = [tokens EXCEPT ![p] = fetched]
    /\ IF fetched # <<>>
       THEN /\ spawn_save(fetched)
            /\ outcome' = [outcome EXCEPT ![p] = "ok"]
            /\ respond(p, get_tokens_fetched_response(fetched, cached_tokens[p]))
       ELSE /\ answer_no_data(p, "empty")
            /\ UNCHANGED tasks
    /\ UNCHANGED <<now, held, response, history, query, data, gate, store, kind, token_id>>

\* The spawned task: one iteration of save_tokens_to_cache's loop.
save_tokens_to_cache_step(k) ==
    /\ tasks[k] # <<>>
    /\ store' = upsert_token(store, Head(tasks[k]))
    /\ tasks' = [tasks EXCEPT ![k] = Tail(tasks[k])]
    /\ UNCHANGED <<now, held, history, gate, pc, locals>>

\* A failed update that ends the loop.
remaining_after_failure_none(todo) == <<>>

\* `let _ = collection.update_one(..).await`: the result is discarded and
\* the loop goes on with the next token.
remaining_after_failure(todo) == Tail(todo)

\* The spawned task: one iteration whose update_one fails.
save_tokens_to_cache_step_fails(k) ==
    /\ tasks[k] # <<>>
    /\ tasks' = [tasks EXCEPT ![k] = remaining_after_failure(tasks[k])]
    /\ UNCHANGED <<now, held, history, gate, store, pc, locals>>

(* ------------------------------ get_token ----------------------------- *)

\* get_token, lines 160-165: the cache is tried first.
get_token_find(p, id) ==
    /\ pc[p] = "idle"
    /\ kind' = [kind EXCEPT ![p] = "get_token"]
    /\ token_id' = [token_id EXCEPT ![p] = id]
    /\ IF IsSome(find_one(store, id))
       THEN /\ outcome' = [outcome EXCEPT ![p] = "cached"]
            /\ respond(p, OkTokens(find_one(store, id)))
       ELSE /\ goto(p, "gate_rate_limited")
            /\ UNCHANGED outcome
    /\ UNCHANGED <<now, held, response, history, query, data, gate, store, tasks, tokens>>

\* fetch_token_details returns Ok(token): line 172.
fetch_token_details_ok(p, market) ==
    /\ pc[p] = "fetch"
    /\ kind[p] = "get_token"
    /\ market.token_id = token_id[p]
    /\ tokens' = [tokens EXCEPT ![p] = <<market>>]
    /\ outcome' = [outcome EXCEPT ![p] = "ok"]
    /\ goto(p, "persist")
    /\ UNCHANGED <<now, held, response, history, query, data, gate, store, tasks, kind, token_id>>

\* get_token, lines 173-174: the awaited save, then the response.
get_token_persist(p) ==
    /\ pc[p] = "persist"
    /\ store' = upsert_token(store, tokens[p][1])
    /\ respond(p, OkTokens(tokens[p]))
    /\ UNCHANGED <<now, held, response, history, query, data, gate, tasks, kind, token_id, outcome, tokens>>

(* --------------------------- toggle_favorite -------------------------- *)

\* The toggle of an id that is not stored taken as the creation of its
\* record, as a favourite.
toggle_favorite_find_creating(p, id) ==
    /\ pc[p] = "idle"
    /\ kind' = [kind EXCEPT ![p] = "toggle_favorite"]
    /\ token_id' = [token_id EXCEPT ![p] = id]
    /\ IF IsSome(find_one(store, id))
       THEN /\ tokens' = [tokens EXCEPT ![p] = find_one(store, id)]
            /\ new_favorite' = [new_favorite EXCEPT ![p] = ~Unwrap(find_one(store, id)).is_favorite]
            /\ pc' = [pc EXCEPT ![p] = "toggle_update"]
            /\ UNCHANGED <<resp, cached_tokens, store>>
       ELSE /\ store' = Append(store, CryptoToken(id, 0, TRUE))
            /\ respond(p, OkTokens(<<CryptoToken(id, 0, TRUE)>>))
            /\ UNCHANGED tokens
    /\ UNCHANGED <<now, held, response, history, query, data, gate, tasks, outcome>>

\* toggle_favorite, lines 198-207 and 226-230: the first find_one.
toggle_favorite_find(p, id) ==
    /\ pc[p] = "idle"
    /\ kind' = [kind EXCEPT ![p] = "toggle_favorite"]
    /\ token_id' = [token_id EXCEPT ![p] = id]
    /\ IF IsSome(find_one(store, id))
       THEN /\ tokens' = [tokens EXCEPT ![p] = find_one(store, id)]
            /\ new_favorite' = [new_favorite EXCEPT ![p] = ~Unwrap(find_one(store, id)).is_favorite]
            /\ pc' = [pc EXCEPT ![p] = "toggle_update"]
            /\ UNCHANGED <<resp, cached_tokens>>
       ELSE /\ respond(p, NotFound)
            /\ UNCHANGED tokens
    /\ UNCHANGED <<now, held, response, history, query, data, gate, store, tasks, outcome>>

\* toggle_favorite, line 209: update_one.
toggle_favorite_update(p) ==
    /\ pc[p] = "toggle_update"
    /\ store' = set_favorite(store, token_id[p], new_favorite[p])
    /\ goto(p, "toggle_find")
    /\ UNCHANGED <<now, held, response, history, query, data, gate, tasks, kind, token_id, outcome, tokens>>

\* toggle_favorite, lines 211-216: the second find_one and the response.
toggle_favorite_refind(p) ==
    /\ pc[p] = "toggle_find"
    /\ respond(p, IF IsSome(find_one(store, token_id[p]))
                  THEN OkTokens(find_one(store, token_id[p]))
                  ELSE OkMessage)
    /\ UNCHANGED <<now, held, response, history, query, data, gate, store, tasks, kind, token_id, outcome, tokens>>

(* ------------------------ get_stats, get_favorites -------------------- *)

\* A CryptoToken with the fields get_stats reads.  An f64 is a whole number
\* here; sums are exact.
StatsToken(id, cap, volume, change) ==
    [token_id |-> id, market_cap |-> cap, is_favorite |-> FALSE,
     volume_24h |-> volume, price_change_percentage_24h |-> change]

\* iter().sum(): the values added from the first to the last.
RECURSIVE sum(_)
sum(values) ==
    IF values = <<>> THEN 0 ELSE sum(SubSeq(values, 1, Len(values) - 1)) + values[Len(values)]

\* A quotient that ignores the divisor.
quotient_undivided(total, count) == [num |-> total, den |-> 1]

\* total / count as f64: the quotient, held as a fraction.
quotient(total, count) == [num |-> total, den |-> count]

\* Iterator::max_by: reduce(|x, y| match compare(&x, &y) { Greater => x, _ => y }),
\* so of several maximal elements the last is returned.
RECURSIVE max_by(_)
max_by(list) ==
    IF Len(list) = 1 THEN list[1]
    ELSE LET x == max_by(SubSeq(list, 1, Len(list) - 1))
             y == list[Len(list)]
         IN IF x.price_change_percentage_24h > y.price_change_percentage_24h THEN x ELSE y

\* Iterator::min_by: reduce(|x, y| match compare(&x, &y) { Greater => y, _ => x }),
\* so of several minimal elements the first is returned.
RECURSIVE min_by(_)
min_by(list) ==
    IF Len(list) = 1 THEN list[1]
    ELSE LET x == min_by(SubSeq(list, 1, Len(list) - 1))
             y == list[Len(list)]
         IN IF x.price_change_percentage_24h > y.price_change_percentage_24h THEN y ELSE x

\* The TokenStats of an empty list.
EmptyStats ==
    [total_tokens |-> 0, total_market_cap |-> 0, total_volume_24h |-> 0,
     avg_price_change_24h |-> [num |-> 0, den |-> 1],
     biggest_gainer |-> None, biggest_loser |-> None]

\* get_stats, lines 380-411.
token_stats(list) ==
    IF list = <<>> THEN EmptyStats
    ELSE [total_tokens |-> Len(list),
          total_market_cap |-> sum([i \in DOMAIN list |-> list[i].market_cap]),
          total_volume_24h |-> sum([i \in DOMAIN list |-> list[i].volume_24h]),
          avg_price_change_24h |->
              quotient(sum([i \in DOMAIN list |-> list[i].price_change_percentage_24h]),
                       Len(list)),
          biggest_gainer |-> Some(max_by(list)),
          biggest_loser |-> Some(min_by(list))]

\* `if let Ok(mut cursor) = collection.find(None, None).await`: the
\* documents when the find succeeds, none when it fails.
found_or_empty(coll, found) == IF found THEN coll ELSE <<>>

\* get_stats: one read of the collection, then the response.
get_stats(p, found) ==
    /\ pc[p] = "idle"
    /\ kind' = [kind EXCEPT ![p] = "get_stats"]
    /\ outcome' = [outcome EXCEPT ![p] = IF found THEN "none" ELSE "store_err"]
    /\ respond(p, OkStats(token_stats(get_cached_tokens(found_or_empty(store, found)))))
    /\ UNCHANGED <<now, held, response, history, query, data, gate, store, tasks, token_id, tokens>>

\* collection.find(doc! { "is_favorite": true }): the favourites, in
\* storage order.
favorites(coll) == SelectSeq(coll, LAMBDA t : t.is_favorite)

\* get_favorites: 200 with the favourites, or 500 when the find fails.
get_favorites(p, found) ==
    /\ pc[p] = "idle"
    /\ kind' = [kind EXCEPT ![p] = "get_favorites"]
    /\ outcome' = [outcome EXCEPT ![p] = IF found THEN "none" ELSE "store_err"]
    /\ respond(p, IF found THEN OkTokens(favorites(store)) ELSE DatabaseError)
    /\ UNCHANGED <<now, held, response, history, query, data, gate, store, tasks, token_id, tokens>>

(* ---------------------------- search_tokens --------------------------- *)

\* A string is the sequence of its characters.
\* The symbol, the name and the id as text of the tokens upstream reports.
token_symbol(token) ==
    IF token.token_id = "bitcoin" THEN <<"b", "t", "c">> ELSE <<"e", "t", "h">>
token_name(token) ==
    IF token.token_id = "bitcoin" THEN <<"B", "i", "t", "c", "o", "i", "n">>
    ELSE <<"E", "t", "h", "e", "r", "e", "u", "m">>
token_id_text(token) ==
    IF token.token_id = "bitcoin" THEN <<"b", "i", "t", "c", "o", "i", "n">>
    ELSE <<"e", "t", "h">>

\* The q parameter of a search request: missing, empty, or a text.
Queries ==
    { None, Some(<<>>), Some(<<"B", "T", "C">>), Some(<<"E", "R">>), Some(<<"t">>),
      Some(<<"C", "o", "i", "n">>), Some(<<"x">>) }

\* A conversion that leaves the case as it is.
keep_case(text) == text

\* str::to_lowercase, on the letters that occur.
lowercase_char(c) ==
    CASE c = "A" -> "a" [] c = "B" -> "b" [] c = "C" -> "c" [] c = "E" -> "e"
      [] c = "F" -> "f" [] c = "I" -> "i" [] c = "M" -> "m" [] c = "P" -> "p"
      [] c = "R" -> "r" [] c = "S" -> "s" [] c = "T" -> "t" [] OTHER -> c
to_lowercase(text) == [i \in DOMAIN text |-> lowercase_char(text[i])]

\* str::contains: pattern occurs in text at some offset.
contains(text, pattern) ==
    \E k \in 0..(Len(text) - Len(pattern)) : SubSeq(text, k + 1, k + Len(pattern)) = pattern

\* The closure of search_tokens' filter.
search_filter(token, search_lower) ==
    \/ contains(to_lowercase(token_name(token)), search_lower)
    \/ contains(to_lowercase(token_symbol(token)), search_lower)
    \/ contains(to_lowercase(token_id_text(token)), search_lower)

RECURSIVE filter_tokens(_, _)
filter_tokens(list, search_lower) ==
    IF list = <<>> THEN <<>>
    ELSE (IF search_filter(Head(list), search_lower) THEN <<Head(list)>> ELSE <<>>)
            \o filter_tokens(Tail(list), search_lower)

\* query.get("q").map(|s| s.as_str()).unwrap_or("")
search_query(q) == IF IsSome(q) THEN Unwrap(q) ELSE <<>>

\* The filter applied whatever the query is: an empty query matches every token.
search_tokens_response_match_all(coll, q) ==
    OkTokens(filter_tokens(get_cached_tokens(coll), to_lowercase(search_query(q))))

\* search_tokens: 400 for an empty query, else the filtered cached tokens.
search_tokens_response(coll, q) ==
    IF search_query(q) = <<>>
    THEN BadRequest
    ELSE OkTokens(filter_tokens(get_cached_tokens(coll), to_lowercase(search_query(q))))

\* search_tokens: nothing suspends but the one read of the collection.
\* The search counted as an upstream call: LAST_API_CALL is set.
search_tokens_recording(p, q) ==
    /\ pc[p] = "idle"
    /\ kind' = [kind EXCEPT ![p] = "search_tokens"]
    /\ query' = [query EXCEPT ![p] = q]
    /\ respond(p, search_tokens_response(store, q))
    /\ LAST_API_CALL' = call_recorded(now)
    /\ UNCHANGED <<now, held, response, history, data, RATE_LIMITED_UNTIL, store, tasks, token_id,
                   outcome, tokens>>

search_tokens(p, q) ==
    /\ pc[p] = "idle"
    /\ kind' = [kind EXCEPT ![p] = "search_tokens"]
    /\ query' = [query EXCEPT ![p] = q]
    /\ respond(p, search_tokens_response(store, q))
    /\ UNCHANGED <<now, held, response, history, data, gate, store, tasks, token_id, outcome, tokens>>

(* ------------------------- get_historical_data ------------------------ *)

\* get_historical_data, lines 300-303: the handler starts at the gate.
get_historical_data_start(p, id) ==
    /\ pc[p] = "idle"
    /\ kind' = [kind EXCEPT ![p] = "get_historical_data"]
    /\ token_id' = [token_id EXCEPT ![p] = id]
    /\ goto(p, "gate_rate_limited")
    /\ UNCHANGED <<now, held, response, history, query, data, gate, store, tasks, outcome, tokens>>

\* get_historical_data, lines 305-326: the gate was closed.
get_historical_data_cached(p) ==
    /\ pc[p] = "history_find"
    /\ respond(p, get_historical_data_cached_response(history, token_id[p]))
    /\ UNCHANGED <<now, held, response, history, query, data, gate, store, tasks, kind, token_id, outcome, tokens>>

\* fetch_historical_data returns Ok(data): line 332.
fetch_historical_data_ok(p, fetched) ==
    /\ pc[p] = "fetch"
    /\ kind[p] = "get_historical_data"
    /\ data' = [data EXCEPT ![p] = Some(fetched)]
    /\ outcome' = [outcome EXCEPT ![p] = "ok"]
    /\ goto(p, "history_save")
    /\ UNCHANGED <<now, held, response, history, query, gate, store, tasks, kind, token_id, tokens>>

\* get_historical_data, lines 334-359: the upsert, then the response.
get_historical_data_save(p) ==
    /\ pc[p] = "history_save"
    /\ history' = upsert_history(history, PriceHistory(token_id[p], Unwrap(data[p])))
    /\ respond(p, OkSeries(Unwrap(data[p])))
    /\ UNCHANGED <<now, held, response, query, data, gate, store, tasks, kind, token_id, outcome, tokens>>

(* ------------------------------ the locks ----------------------------- *)

\* The steps of the three gate functions at the grain of their locks.  A
\* request at one of these labels is at a lock().await, waiting for the
\* mutex to be free.
WaitLabels == {"gate_rate_limited", "gate_last_call", "record_api_call", "record_rate_limit"}

\* The mutex each lock().await is for.
waits_for(label) ==
    IF label \in {"gate_rate_limited", "record_rate_limit"}
    THEN "RATE_LIMITED_UNTIL" ELSE "LAST_API_CALL"

\* Where the request is once the lock().await has returned the guard.
locked_label(label) ==
    CASE label = "gate_rate_limited" -> "gate_rate_limited_locked"
      [] label = "gate_last_call" -> "gate_last_call_locked"
      [] label = "record_api_call" -> "record_api_call_locked"
      [] label = "record_rate_limit" -> "record_rate_limit_locked"

LockedLabels == { locked_label(label) : label \in WaitLabels }

\* The guard kept: the mutex stays locked.
drop_forgotten(m) == held' = held

\* The guard of mutex m goes out of scope, or is dropped.
drop(m) == held' = [held EXCEPT ![m] = None]

\* X.lock().await returns: the mutex was free and the request holds it.
lock(p) ==
    /\ pc[p] \in WaitLabels
    /\ held[waits_for(pc[p])] = None
    /\ held' = [held EXCEPT ![waits_for(pc[p])] = Some(p)]
    /\ pc' = [pc EXCEPT ![p] = locked_label(pc[p])]
    /\ UNCHANGED <<now, gate, store, history, tasks, locals>>

\* can_make_api_call, lines 18-25, holding RATE_LIMITED_UNTIL: return
\* false, or drop(rate_limited) and go on to the second lock.
can_make_api_call_rate_limited_locked(p) ==
    /\ pc[p] = "gate_rate_limited_locked"
    /\ IF rate_limited(RATE_LIMITED_UNTIL, now)
       THEN answer_no_data(p, "closed")
       ELSE goto(p, "gate_last_call") /\ UNCHANGED outcome
    /\ drop("RATE_LIMITED_UNTIL")
    /\ UNCHANGED <<now, response, history, query, data, gate, store, tasks, kind, token_id, tokens>>

\* can_make_api_call, lines 27-33, holding LAST_API_CALL: the guard goes
\* out of scope at either return.
can_make_api_call_last_call_locked(p) ==
    /\ pc[p] = "gate_last_call_locked"
    /\ IF too_soon(LAST_API_CALL, now)
       THEN answer_no_data(p, "closed")
       ELSE goto(p, "record_api_call") /\ UNCHANGED outcome
    /\ drop("LAST_API_CALL")
    /\ UNCHANGED <<now, response, history, query, data, gate, store, tasks, kind, token_id, tokens>>

\* record_api_call, holding LAST_API_CALL.
record_api_call_locked(p) ==
    /\ pc[p] = "record_api_call_locked"
    /\ LAST_API_CALL' = call_recorded(now)
    /\ goto(p, "fetch")
    /\ drop("LAST_API_CALL")
    /\ UNCHANGED <<now, response, history, query, data, RATE_LIMITED_UNTIL, store, tasks, kind,
                   token_id, outcome, tokens>>

\* record_rate_limit, holding RATE_LIMITED_UNTIL.
record_rate_limit_locked(p) ==
    /\ pc[p] = "record_rate_limit_locked"
    /\ RATE_LIMITED_UNTIL' = backoff_until(now)
    /\ respond(p, no_data_response(p))
    /\ drop("RATE_LIMITED_UNTIL")
    /\ UNCHANGED <<now, response, history, query, data, LAST_API_CALL, store, tasks, kind,
                   token_id, outcome, tokens>>

\* A step a request takes while it holds a guard.
locked_step(p) ==
    \/ can_make_api_call_rate_limited_locked(p)
    \/ can_make_api_call_last_call_locked(p)
    \/ record_api_call_locked(p)
    \/ record_rate_limit_locked(p)

(* ----------------------------- the upstream --------------------------- *)

\* The reply send() gets from the upstream: an HTTP status and a body, or
\* no reply at all (the upstream is unreachable, or the request timed out).
\* The body is the payload the endpoint is meant to return ("data"), the
\* JSON array [] ("empty"), a JSON error object ("error"), text that is not
\* JSON ("malformed"; "malformed_split" when it is longer than 500 bytes
\* and byte 500 falls inside a multi-byte character; "malformed_at_429"
\* when it is JSON up to column 429 of its one line), or a market_chart
\* object with an entry of fewer than two numbers ("short_entries").
Reply(status, body) == [status |-> status, body |-> body]
NoReply == Reply(0, "none")
Replies ==
    { NoReply, Reply(200, "data"), Reply(200, "empty"), Reply(200, "malformed"),
      Reply(200, "malformed_split"), Reply(200, "malformed_at_429"),
      Reply(200, "short_entries"),
      Reply(429, "error"), Reply(500, "error") }

\* e.to_string() of the errors the three fetch functions return.
\* "API returned error: 429 Too Many Requests" (fetch_top_tokens)
ERR_STATUS_429 ==
    << "A", "P", "I", " ", "r", "e", "t", "u", "r", "n", "e", "d", " ",
       "e", "r", "r", "o", "r", ":", " ", "4", "2", "9", " ", "T", "o",
       "o", " ", "M", "a", "n", "y", " ", "R", "e", "q", "u", "e", "s",
       "t", "s" >>
\* "API returned error: 500 Internal Server Error" (fetch_top_tokens)
ERR_STATUS_500 ==
    << "A", "P", "I", " ", "r", "e", "t", "u", "r", "n", "e", "d", " ",
       "e", "r", "r", "o", "r", ":", " ", "5", "0", "0", " ", "I", "n",
       "t", "e", "r", "n", "a", "l", " ", "S", "e", "r", "v", "e", "r",
       " ", "E", "r", "r", "o", "r" >>
\* "Failed to parse API response: ..." (fetch_top_tokens), with serde's message
ERR_PARSE ==
    << "F", "a", "i", "l", "e", "d", " ", "t", "o", " ", "p", "a", "r",
       "s", "e", " ", "A", "P", "I", " ", "r", "e", "s", "p", "o", "n",
       "s", "e", ":", " ", "e", "x", "p", "e", "c", "t", "e", "d", " ",
       "v", "a", "l", "u", "e" >>
\* the same, with the place serde_json reports for the body that stops
\* being JSON at column 429
ERR_PARSE_AT_429 ==
    << "F", "a", "i", "l", "e", "d", " ", "t", "o", " ", "p", "a", "r",
       "s", "e", " ", "A", "P", "I", " ", "r", "e", "s", "p", "o", "n",
       "s", "e", ":", " ", "e", "x", "p", "e", "c", "t", "e", "d", " ",
       "v", "a", "l", "u", "e", " ", "a", "t", " ", "l", "i", "n", "e",
       " ", "1", " ", "c", "o", "l", "u", "m", "n", " ", "4", "2", "9" >>
\* reqwest: send() failed or timed out
ERR_SEND ==
    << "e", "r", "r", "o", "r", " ", "s", "e", "n", "d", "i", "n", "g",
       " ", "r", "e", "q", "u", "e", "s", "t" >>
\* reqwest: response.json() failed, with serde's message
ERR_DECODE ==
    << "e", "r", "r", "o", "r", " ", "d", "e", "c", "o", "d", "i", "n",
       "g", " ", "r", "e", "s", "p", "o", "n", "s", "e", " ", "b", "o",
       "d", "y", ":", " ", "i", "n", "v", "a", "l", "i", "d", " ", "t",
       "y", "p", "e" >>
\* io::Error NotFound (fetch_token_details)
ERR_NOT_FOUND ==
    << "T", "o", "k", "e", "n", " ", "n", "o", "t", " ", "f", "o", "u",
       "n", "d" >>

\* Result<T, Box<dyn Error>>, and a fetch function that panics.
Ok(value) == [result |-> "ok", value |-> value]
Err(text) == [result |-> "err", error |-> text]
Panics == [result |-> "panic"]

\* status.is_success()
is_success(status) == status \in 200..299

\* What the upstream payloads deserialise to.
TopTokens == << MarketToken("eth", 200), MarketToken("bitcoin", 100) >>
TokenDetails(id) == IF id = "bitcoin" THEN MarketToken("bitcoin", 100) ELSE MarketToken("eth", 200)
FetchedSeries == HistoricalData(<< <<10, 15>> >>, << <<10, 25>> >>, << <<10, 35>> >>)
ShortSeries == HistoricalData(<< <<10>> >>, << <<10, 25>> >>, << <<10, 35>> >>)

\* fetch_top_tokens: send, status check, parse.  The log line of a parse
\* failure slices the body at byte 500.
fetch_top_tokens(reply) ==
    IF reply = NoReply THEN Err(ERR_SEND)
    ELSE IF ~is_success(reply.status)
         THEN Err(IF reply.status = 429 THEN ERR_STATUS_429 ELSE ERR_STATUS_500)
    ELSE IF reply.body = "data" THEN Ok(TopTokens)
    ELSE IF reply.body = "empty" THEN Ok(<<>>)
    ELSE IF reply.body = "malformed_split" THEN Panics
    ELSE IF reply.body = "malformed_at_429" THEN Err(ERR_PARSE_AT_429)
    ELSE Err(ERR_PARSE)

\* fetch_token_details: send, response.json(), markets.pop().  The status
\* is not looked at.
fetch_token_details(reply, id) ==
    IF reply = NoReply THEN Err(ERR_SEND)
    ELSE IF reply.body = "data" THEN Ok(TokenDetails(id))
    ELSE IF reply.body = "empty" THEN Err(ERR_NOT_FOUND)
    ELSE Err(ERR_DECODE)

\* fetch_historical_data: send, response.json().  The status is not looked
\* at; an entry of any length deserialises as a Vec<f64>.
fetch_historical_data(reply) ==
    IF reply = NoReply THEN Err(ERR_SEND)
    ELSE IF reply.body = "data" THEN Ok(FetchedSeries)
    ELSE IF reply.body = "short_entries" THEN Ok(ShortSeries)
    ELSE Err(ERR_DECODE)

\* error_msg.contains("429") || error_msg.contains("rate"), on
\* e.to_string().to_lowercase(): the kind of error the handler takes it for.
error_class(text) ==
    IF \/ contains(to_lowercase(text), <<"4", "2", "9">>)
       \/ contains(to_lowercase(text), <<"r", "a", "t", "e">>)
    THEN "err_rate" ELSE "err_other"

\* p[0], p[1] on every entry: an entry of fewer than two numbers panics.
indexable(fetched) ==
    \A series \in {fetched.prices, fetched.market_caps, fetched.total_volumes} :
        \A i \in DOMAIN series : Len(series[i]) >= 2

\* The upstream replies to the request a fetch function sent.
upstream_replies(p, reply) ==
    /\ pc[p] = "fetch"
    /\ response[p] = None
    /\ response' = [response EXCEPT ![p] = Some(reply)]
    /\ UNCHANGED <<now, held, gate, store, history, tasks, pc, kind, token_id, cached_tokens,
                   outcome, tokens, query, data, new_favorite, resp>>

\* The handler's future panics: the request ends without a response.
panic(p) ==
    /\ pc' = [pc EXCEPT ![p] = "panicked"]
    /\ outcome' = [outcome EXCEPT ![p] = "panic"]
    /\ UNCHANGED <<now, held, gate, store, history, tasks, kind, token_id, cached_tokens,
                   tokens, query, data, response, new_favorite, resp>>

\* The connection of a panicked request is dropped; the worker goes on.
unwind(p) ==
    /\ pc[p] = "panicked"
    /\ pc' = [pc EXCEPT ![p] = "idle"]
    /\ kind' = [kind EXCEPT ![p] = "none"]
    /\ token_id' = [token_id EXCEPT ![p] = ""]
    /\ cached_tokens' = [cached_tokens EXCEPT ![p] = <<>>]
    /\ outcome' = [outcome EXCEPT ![p] = "none"]
    /\ response' = [response EXCEPT ![p] = None]
    /\ UNCHANGED <<now, held, gate, store, history, tasks, tokens, query, data, new_favorite, resp>>

\* get_tokens, line 114: the match on what fetch_top_tokens returns.
fetch_top_tokens_returns(p) ==
    /\ kind[p] = "get_tokens"
    /\ IsSome(response[p])
    /\ LET returned == fetch_top_tokens(Unwrap(response[p]))
       IN CASE returned.result = "ok" -> fetch_top_tokens_ok(p, returned.value)
            [] returned.result = "err" -> fetch_err(p, error_class(returned.error))
            [] returned.result = "panic" -> pc[p] = "fetch" /\ panic(p)

\* get_token, line 171: the match on what fetch_token_details returns.
fetch_token_details_returns(p) ==
    /\ kind[p] = "get_token"
    /\ IsSome(response[p])
    /\ LET returned == fetch_token_details(Unwrap(response[p]), token_id[p])
       IN CASE returned.result = "ok" -> fetch_token_details_ok(p, returned.value)
            [] returned.result = "err" -> fetch_err(p, error_class(returned.error))

\* get_historical_data, lines 331-342: the match on what
\* fetch_historical_data returns, and the PriceHistory built in the Ok arm.
fetch_historical_data_returns(p) ==
    /\ kind[p] = "get_historical_data"
    /\ IsSome(response[p])
    /\ LET returned == fetch_historical_data(Unwrap(response[p]))
       IN CASE returned.result = "err" -> fetch_err(p, error_class(returned.error))
            [] returned.result = "ok" /\ indexable(returned.value)
                  -> fetch_historical_data_ok(p, returned.value)
            [] returned.result = "ok" /\ ~indexable(returned.value)
                  -> pc[p] = "fetch" /\ panic(p)

(* --------------------------- specifications --------------------------- *)

Errors == {"err_rate", "err_other"}

\* The steps every handler that calls upstream shares.
gate_steps(p) ==
    \/ can_make_api_call_rate_limited(p)
    \/ can_make_api_call_last_call(p)
    \/ record_api_call(p)
    \/ \E err \in Errors : fetch_err(p, err)
    \/ record_rate_limit(p)
    \/ finish(p)

\* The handlers and the background tasks, racing within one second of the
\* process's start.
Next ==
    \/ \E k \in 1..MaxTasks : save_tokens_to_cache_step(k)
    \/ \E p \in Procs :
        \/ get_tokens_read_cache(p)
        \/ \E id \in TokenIds : get_token_find(p, id)
        \/ \E id \in TokenIds : toggle_favorite_find(p, id)
        \/ gate_steps(p)
        \/ \E fetched \in MarketLists : fetch_top_tokens_ok(p, fetched)
        \/ \E market \in Markets : fetch_token_details_ok(p, market)
        \/ get_token_persist(p)
        \/ toggle_favorite_update(p)
        \/ toggle_favorite_refind(p)

Spec == Init /\ [][Next]_vars

\* The gate over time: a first start, and requests against an upstream that
\* has no data to give (it fails, or returns an empty list), so that the
\* collection stays empty.
\* The clock runs second by second for GateSlack seconds, may skip a quiet
\* stretch, and runs second by second again around the end of the backoff
\* window.
MaxTimeGate == RATE_LIMIT_BACKOFF_SECS + GateSlack

NextGate ==
    \/ Tick(GateSlack)
    \/ LongTick(MaxTimeGate)
    \/ now >= RATE_LIMIT_BACKOFF_SECS - MIN_REQUEST_INTERVAL_SECS /\ Tick(MaxTimeGate)
    \/ \E p \in Procs :
        \/ get_tokens_read_cache(p)
        \/ \E id \in TokenIds : get_token_find(p, id)
        \/ gate_steps(p)
        \/ fetch_top_tokens_ok(p, <<>>)

InitGate == Init /\ store = <<>>

SpecGate == InitGate /\ [][NextGate]_vars

\* can_make_api_call alone: one request at the gate, with the clock and
\* both timestamps as some earlier run of the program left them (a throttle
\* recorded in the first FnWindow seconds, a call recorded in the last
\* FnWindow seconds before the clock's reading, or neither).
FnTimes == (RATE_LIMIT_BACKOFF_SECS - FnWindow)..(RATE_LIMIT_BACKOFF_SECS + FnWindow)

InitFn ==
    /\ now \in FnTimes
    /\ held = [m \in Locks |-> None]
    /\ LAST_API_CALL \in {None} \cup { call_recorded(t) : t \in { u \in FnTimes : u <= now } }
    /\ RATE_LIMITED_UNTIL \in {None} \cup { backoff_until(t) : t \in 0..FnWindow }
    /\ store = <<>>
    /\ history = <<>>
    /\ tasks = [k \in 1..MaxTasks |-> <<>>]
    /\ \E r \in Procs :
        /\ pc = [p \in Procs |-> IF p = r THEN "gate_rate_limited" ELSE "idle"]
        /\ kind = [p \in Procs |-> IF p = r THEN "get_token" ELSE "none"]
        /\ token_id = [p \in Procs |-> IF p = r THEN "bitcoin" ELSE ""]
    /\ cached_tokens = [p \in Procs |-> <<>>]
    /\ outcome = [p \in Procs |-> "none"]
    /\ tokens = [p \in Procs |-> <<>>]
    /\ query = [p \in Procs |-> None]
    /\ data = [p \in Procs |-> None]
    /\ response = [p \in Procs |-> None]
    /\ new_favorite = [p \in Procs |-> FALSE]
    /\ resp = [p \in Procs |-> NoResponse]

NextFn ==
    \E p \in Procs :
        \/ can_make_api_call_rate_limited(p)
        \/ can_make_api_call_last_call(p)

SpecFn == InitFn /\ [][NextFn]_vars

\* toggle_favorite alone, one toggle at a time: a toggle starts only when
\* no other request is between its first find_one and its response.
NextToggle ==
    \E p \in Procs :
        \/ /\ \A q \in Procs \ {p} : pc[q] \in {"idle", "done"}
           /\ \E id \in TokenIds : toggle_favorite_find(p, id)
        \/ toggle_favorite_update(p)
        \/ toggle_favorite_refind(p)
        \/ finish(p)

SpecToggle == Init /\ [][NextToggle]_vars

\* get_stats and get_favorites over a collection some earlier run filled,
\* with toggle_favorite requests changing the favourites.  A find of
\* get_stats or get_favorites may fail.
StatsTokens ==
    { StatsToken(id, cap, volume, change) :
        id \in TokenIds, cap \in {100, 200}, volume \in {10, 20}, change \in {-5, 5} }
StatsStores ==
    { s \in UNION { [1..n -> StatsTokens] : n \in 0..Cardinality(TokenIds) } : DistinctIds(s) }

InitStats ==
    /\ now = 0
    /\ LAST_API_CALL = None
    /\ RATE_LIMITED_UNTIL = None
    /\ store \in StatsStores
    /\ history = <<>>
    /\ tasks = [k \in 1..MaxTasks |-> <<>>]
    /\ NoRequests

NextStats ==
    \E p \in Procs :
        \/ \E found \in BOOLEAN : get_stats(p, found)
        \/ \E found \in BOOLEAN : get_favorites(p, found)
        \/ \E id \in TokenIds : toggle_favorite_find(p, id)
        \/ toggle_favorite_update(p)
        \/ toggle_favorite_refind(p)
        \/ finish(p)

SpecStats == InitStats /\ [][NextStats]_vars

\* get_tokens and its background tasks, over a store whose updates may fail.
NextSave ==
    \/ \E k \in 1..MaxTasks : save_tokens_to_cache_step(k)
    \/ \E k \in 1..MaxTasks : save_tokens_to_cache_step_fails(k)
    \/ \E p \in Procs :
        \/ get_tokens_read_cache(p)
        \/ gate_steps(p)
        \/ \E fetched \in MarketLists : fetch_top_tokens_ok(p, fetched)

SpecSave == Init /\ [][NextSave]_vars

\* The three handlers that call upstream, with the fetch functions of
\* crypto_service applied to what the upstream replies.
NextUpstream ==
    \/ \E k \in 1..MaxTasks : save_tokens_to_cache_step(k)
    \/ \E p \in Procs :
        \/ get_tokens_read_cache(p)
        \/ \E id \in TokenIds : get_token_find(p, id)
        \/ \E id \in TokenIds : get_historical_data_start(p, id)
        \/ can_make_api_call_rate_limited(p)
        \/ can_make_api_call_last_call(p)
        \/ record_api_call(p)
        \/ \E reply \in Replies : upstream_replies(p, reply)
        \/ fetch_top_tokens_returns(p)
        \/ fetch_token_details_returns(p)
        \/ fetch_historical_data_returns(p)
        \/ record_rate_limit(p)
        \/ get_token_persist(p)
        \/ get_historical_data_save(p)
        \/ get_historical_data_cached(p)
        \/ finish(p)
        \/ unwind(p)

SpecUpstream == Init /\ [][NextUpstream]_vars

\* The three handlers that call upstream over the first seconds of the
\* process, with a fetch that succeeds, returns no token, or fails.
NextAttempt ==
    \/ Tick(MaxTimeHistory)
    \/ \E k \in 1..MaxTasks : save_tokens_to_cache_step(k)
    \/ \E p \in Procs :
        \/ get_tokens_read_cache(p)
        \/ \E id \in TokenIds : get_token_find(p, id)
        \/ \E id \in TokenIds : get_historical_data_start(p, id)
        \/ gate_steps(p)
        \/ \E fetched \in {<<>>, TopTokens} : fetch_top_tokens_ok(p, fetched)
        \/ fetch_token_details_ok(p, TokenDetails(token_id[p]))
        \/ fetch_historical_data_ok(p, FetchedSeries)
        \/ get_token_persist(p)
        \/ get_historical_data_save(p)
        \/ get_historical_data_cached(p)

SpecAttempt == InitGate /\ [][NextAttempt]_vars

\* The handlers that work on the store alone (search_tokens,
\* toggle_favorite, get_favorites, get_stats), with get_tokens requests
\* whose fetch fails or returns no token moving the gate beside them.
LocalStores ==
    { <<>>, << StatsToken("bitcoin", 100, 10, 5), StatsToken("eth", 200, 20, -5) >> }

InitLocal ==
    /\ now = 0
    /\ LAST_API_CALL = None
    /\ RATE_LIMITED_UNTIL = None
    /\ store \in LocalStores
    /\ history = <<>>
    /\ tasks = [k \in 1..MaxTasks |-> <<>>]
    /\ NoRequests

NextLocal ==
    \E p \in Procs :
        \/ \E q \in Queries : search_tokens(p, q)
        \/ \E found \in BOOLEAN : get_stats(p, found)
        \/ \E found \in BOOLEAN : get_favorites(p, found)
        \/ \E id \in TokenIds : toggle_favorite_find(p, id)
        \/ toggle_favorite_update(p)
        \/ toggle_favorite_refind(p)
        \/ get_tokens_read_cache(p)
        \/ gate_steps(p)
        \/ fetch_top_tokens_ok(p, <<>>)

SpecLocal == InitLocal /\ [][NextLocal]_vars

\* List refreshes whose background tasks overlap: get_tokens requests
\* over the first seconds of the process, every fetch of which succeeds.
\* The market cap the upstream reports grows with every second, so that
\* the values of a snapshot tell when it was fetched.
RefreshTasks == MaxTasks + 1

Snapshot(t) == << MarketToken("eth", 200 + 100 * t), MarketToken("bitcoin", 100 + 100 * t) >>

InitRefresh ==
    /\ now = 0
    /\ LAST_API_CALL = None
    /\ RATE_LIMITED_UNTIL = None
    /\ store = <<>>
    /\ history = <<>>
    /\ tasks = [k \in 1..RefreshTasks |-> <<>>]
    /\ NoRequests

NextRefresh ==
    \/ Tick(MaxTimeHistory)
    \/ \E k \in 1..RefreshTasks : save_tokens_to_cache_step(k)
    \/ \E p \in Procs :
        \/ get_tokens_read_cache(p)
        \/ can_make_api_call_rate_limited(p)
        \/ can_make_api_call_last_call(p)
        \/ record_api_call(p)
        \/ fetch_top_tokens_ok(p, Snapshot(now))
        \/ finish(p)

SpecRefresh == InitRefresh /\ [][NextRefresh]_vars

\* get_tokens and get_token with the gate functions at the grain of their
\* locks.  A task that holds a guard is not suspended and goes on; tokio's
\* Mutex hands the lock to its waiters in the order they asked, so a
\* waiter gets a mutex that is free again and again.
NextLocks ==
    \E p \in Procs :
        \/ get_tokens_read_cache(p)
        \/ \E id \in TokenIds : get_token_find(p, id)
        \/ lock(p)
        \/ locked_step(p)
        \/ \E err \in Errors : fetch_err(p, err)
        \/ fetch_top_tokens_ok(p, <<>>)
        \/ fetch_token_details_ok(p, TokenDetails(token_id[p]))
        \/ get_token_persist(p)
        \/ finish(p)

FairLocks == \A p \in Procs : WF_vars(locked_step(p)) /\ SF_vars(lock(p))

SpecLocks == Init /\ [][NextLocks]_vars /\ FairLocks

\* search_tokens, with get_token requests filling the collection.
NextSearch ==
    \E p \in Procs :
        \/ \E q \in Queries : search_tokens(p, q)
        \/ \E id \in TokenIds : get_token_find(p, id)
        \/ gate_steps(p)
        \/ \E market \in Markets : fetch_token_details_ok(p, market)
        \/ get_token_persist(p)

SpecSearch == Init /\ [][NextSearch]_vars

\* get_historical_data alone.  The history collection outlives the
\* process: at start it is empty, or holds a document written by
\* serialising a PriceHistory, which is the shape the handler reads.
HistoriesAtStart ==
    { <<>>,
      << PriceHistoryDocument(PriceHistory("bitcoin",
            HistoricalData(<< <<10, 15>> >>, << <<10, 25>> >>, << <<10, 35>> >>))) >> }

InitHistory ==
    /\ now = 0
    /\ LAST_API_CALL = None
    /\ RATE_LIMITED_UNTIL = None
    /\ store = <<>>
    /\ history \in HistoriesAtStart
    /\ tasks = [k \in 1..MaxTasks |-> <<>>]
    /\ NoRequests

NextHistory ==
    \/ Tick(MaxTimeHistory)
    \/ \E p \in Procs :
        \/ \E id \in TokenIds : get_historical_data_start(p, id)
        \/ gate_steps(p)
        \/ \E fetched \in HistoricalSeries : fetch_historical_data_ok(p, fetched)
        \/ get_historical_data_save(p)
        \/ get_historical_data_cached(p)

SpecHistory == InitHistory /\ [][NextHistory]_vars

(* ------------------------------- claims -------------------------------- *)

\* A request's can_make_api_call returns in this step.
returns_true(p) == pc[p] = "gate_last_call" /\ pc'[p] = "record_api_call"
returns_false(p) ==
    /\ pc[p] \in {"gate_rate_limited", "gate_last_call"}
    /\ pc'[p] = "done"
    /\ outcome'[p] = "closed"

\* C1: no two upstream attempts start less than MIN_REQUEST_INTERVAL_SECS
\* apart.  An attempt starts when record_api_call returns, and LAST_API_CALL
\* holds the start of the latest one: so every record_api_call finds
\* LAST_API_CALL unset or at least the minimum interval old.
C1_AttemptsAtLeastIntervalApart ==
    [][\A p \in Procs :
          (pc[p] = "record_api_call" /\ pc'[p] = "fetch")
              => \/ LAST_API_CALL = None
                 \/ now - Unwrap(LAST_API_CALL) >= MIN_REQUEST_INTERVAL_SECS]_vars

\* C2: once a request has completed record_rate_limit, no can_make_api_call
\* returns true before the backoff window has elapsed, a check already
\* between its two locks included.
C2_NoPassInsideThrottleWindow ==
    [][\A p \in Procs :
          returns_true(p)
              => ~(RATE_LIMITED_UNTIL # None /\ now < Unwrap(RATE_LIMITED_UNTIL))]_vars

\* C3: with the gate state and the clock held fixed, can_make_api_call
\* returns true exactly when not (rate_limited_until is set and now is
\* before it) and not (last_call_at is set and less than 2 seconds ago).
C3_Open ==
    /\ ~(RATE_LIMITED_UNTIL # None /\ now < Unwrap(RATE_LIMITED_UNTIL))
    /\ ~(LAST_API_CALL # None /\ now - Unwrap(LAST_API_CALL) < 2)

C3_GateFunction ==
    \A p \in Procs :
        /\ pc[p] = "record_api_call" => C3_Open
        /\ pc[p] = "done" => ~C3_Open

\* C3, witness: the check returned true at exactly rate_limited_until and
\* exactly 2 seconds after last_call_at.
C3_Witness ==
    \E p \in Procs :
        /\ pc[p] = "record_api_call"
        /\ RATE_LIMITED_UNTIL = Some(now)
        /\ LAST_API_CALL = Some(now - 2)

\* C4: after record_api_call at time t (LAST_API_CALL = t), a check whose
\* interval test runs at a time in [t, t+2) returns false, whatever
\* RATE_LIMITED_UNTIL is; once 2 seconds have passed the interval test lets
\* the check return true.
C4_IntervalBlocks ==
    [][\A p \in Procs :
          (pc[p] = "gate_last_call" /\ pc'[p] # "gate_last_call" /\ LAST_API_CALL # None)
              => IF Unwrap(LAST_API_CALL) <= now /\ now < Unwrap(LAST_API_CALL) + 2
                 THEN returns_false(p)
                 ELSE returns_true(p)]_vars

\* C4, witness: no throttle was ever recorded, and a check made less than
\* 2 seconds after the last recorded call has returned false.
C4_Witness ==
    \E p \in Procs :
        /\ pc[p] = "done"
        /\ outcome[p] = "closed"
        /\ RATE_LIMITED_UNTIL = None
        /\ LAST_API_CALL # None
        /\ now - Unwrap(LAST_API_CALL) < 2

\* C5: record_rate_limit at time t sets RATE_LIMITED_UNTIL to t + 60; a
\* check that starts before RATE_LIMITED_UNTIL returns false; a check that
\* starts at or after it gets past the throttle test, and returns true
\* when no call was recorded in the 2 seconds before its interval test.
C5_ThrottleWindow ==
    [][\A p \in Procs :
          /\ (pc[p] = "record_rate_limit" /\ pc'[p] # "record_rate_limit")
                => RATE_LIMITED_UNTIL' = Some(now + 60)
          /\ (pc[p] = "gate_rate_limited" /\ pc'[p] # "gate_rate_limited"
                /\ RATE_LIMITED_UNTIL # None)
                => IF now < Unwrap(RATE_LIMITED_UNTIL)
                   THEN returns_false(p)
                   ELSE pc'[p] = "gate_last_call"
          /\ (pc[p] = "gate_last_call" /\ pc'[p] # "gate_last_call"
                /\ RATE_LIMITED_UNTIL # None /\ now >= Unwrap(RATE_LIMITED_UNTIL)
                /\ (LAST_API_CALL = None \/ now - Unwrap(LAST_API_CALL) >= 2))
                => returns_true(p)]_vars

\* C5, witness: a throttle was recorded, its window has elapsed, and a
\* check has returned true again.
C5_Witness ==
    \E p \in Procs :
        /\ pc[p] = "record_api_call"
        /\ RATE_LIMITED_UNTIL # None
        /\ now >= Unwrap(RATE_LIMITED_UNTIL)

\* A handler returns its response in this step.
responds(p) == pc[p] # "done" /\ pc'[p] = "done"

\* out is docs ordered by market_cap descending, documents of equal
\* market_cap in the order docs has them.
IsSortedCache(out, docs) ==
    /\ Len(out) = Len(docs)
    /\ \E f \in [DOMAIN out -> DOMAIN docs] :
        /\ \A i, j \in DOMAIN out : i # j => f[i] # f[j]
        /\ \A i \in DOMAIN out : out[i] = docs[f[i]]
        /\ \A i, j \in DOMAIN out :
              i < j => \/ out[i].market_cap > out[j].market_cap
                       \/ out[i].market_cap = out[j].market_cap /\ f[i] < f[j]

\* C6: the cached tokens get_tokens reads are the collection ordered by
\* market_cap descending, equal market caps in storage order; when they are
\* not empty and the request got no non-empty list from upstream (gate
\* closed, fetch failed, empty list), the response is 200 with exactly them.
C6_CacheFallback ==
    [][\A p \in Procs :
          /\ (pc[p] = "idle" /\ kind'[p] = "get_tokens")
                => IsSortedCache(cached_tokens'[p], store)
          /\ (kind[p] = "get_tokens" /\ responds(p) /\ outcome'[p] # "ok"
                /\ cached_tokens[p] # <<>>)
                => /\ resp'[p].status = 200
                   /\ resp'[p].tokens = cached_tokens[p]]_vars

\* C6, witness: with {bitcoin: 100, eth: 200} read from the cache and a
\* failed fetch, the response is [eth, bitcoin].
C6_Witness ==
    \E p \in Procs :
        /\ pc[p] = "done"
        /\ kind[p] = "get_tokens"
        /\ outcome[p] = "err_other"
        /\ resp[p].status = 200
        /\ Len(resp[p].tokens) = 2
        /\ resp[p].tokens[1].token_id = "eth"
        /\ resp[p].tokens[2].market_cap = 100

C8_FetchedList ==
    [][\A p \in Procs :
          (kind[p] = "get_tokens" /\ pc[p] = "fetch" /\ outcome'[p] = "ok")
              => /\ tokens'[p] # <<>>
                 /\ responds(p)
                 /\ resp'[p].status = 200
                 /\ resp'[p].tokens = tokens'[p]
                 /\ \E k \in 1..MaxTasks :
                       /\ tasks[k] = <<>>
                       /\ tasks'[k] = tokens'[p]
                       /\ \A j \in 1..MaxTasks : j # k => tasks'[j] = tasks[j]]_vars

\* C8, witness: the fetched list differs from the cached tokens the request
\* had read (the collection still holds those), the response carries the
\* fetched list, and the save task has not started writing.
C8_Witness ==
    \E p \in Procs :
        /\ pc[p] = "done"
        /\ kind[p] = "get_tokens"
        /\ outcome[p] = "ok"
        /\ resp[p].tokens = tokens[p]
        /\ store # <<>>
        /\ sort_by_market_cap(store) # tokens[p]
        /\ \E k \in 1..MaxTasks : tasks[k] = tokens[p]

\* One update_one of save_tokens_to_cache is applied in this step, by a
\* background task or by get_token.
refresh_step ==
    \/ \E k \in 1..MaxTasks : tasks[k] # <<>> /\ tasks'[k] = Tail(tasks[k])
    \/ \E p \in Procs : pc[p] = "persist" /\ pc'[p] # "persist"

\* C9: a refresh upsert leaves the is_favorite of every stored token as it
\* was, and a record it inserts has is_favorite = false.
C9_FavoritePreserved ==
    [][refresh_step
          => /\ Len(store') >= Len(store)
             /\ \A i \in DOMAIN store :
                   /\ store'[i].token_id = store[i].token_id
                   /\ store'[i].is_favorite = store[i].is_favorite
             /\ \A i \in DOMAIN store' :
                   i \notin DOMAIN store => store'[i].is_favorite = FALSE]_vars

\* C9, witness: a toggle answered with the token as a favourite, a refresh
\* has since written another market_cap to it, and it is still a favourite.
C9_Witness ==
    \E p \in Procs :
        /\ pc[p] = "done"
        /\ kind[p] = "toggle_favorite"
        /\ resp[p].status = 200
        /\ resp[p].tokens # <<>>
        /\ resp[p].tokens[1].is_favorite
        /\ \E i \in DOMAIN store :
              /\ store[i].token_id = token_id[p]
              /\ store[i].is_favorite
              /\ store[i].market_cap # resp[p].tokens[1].market_cap

\* C10: the collection holds at most one record per token_id.
C10_OneRecordPerTokenId ==
    \A i, j \in DOMAIN store : store[i].token_id = store[j].token_id => i = j

\* C10, witness: a get_token request was answered from the cache, a refresh
\* has since been written to that token's record, toggle_favorite has
\* written to it too, and both tokens are stored.
C10_Witness ==
    /\ Len(store) = 2
    /\ \E p \in Procs :
          /\ pc[p] = "done"
          /\ kind[p] = "get_token"
          /\ outcome[p] = "cached"
          /\ \E i \in DOMAIN store :
                /\ store[i].token_id = token_id[p]
                /\ store[i].market_cap # resp[p].tokens[1].market_cap
                /\ store[i].is_favorite # resp[p].tokens[1].is_favorite

\* C11: a token once stored stays stored, and a get_token request for a
\* stored id answers at its first step with status 200 and the stored
\* record of that id: it never reaches the gate or the upstream call, and
\* the step changes neither the gate nor the collection.
C11_CachedTokenServed ==
    [][/\ \A id \in TokenIds : matching(store, id) # {} => matching(store', id) # {}
       /\ \A p \in Procs :
             (pc[p] = "idle" /\ kind'[p] = "get_token"
                /\ \E i \in DOMAIN store : store[i].token_id = token_id'[p])
                 => /\ responds(p)
                    /\ resp'[p].status = 200
                    /\ Len(resp'[p].tokens) = 1
                    /\ \E i \in DOMAIN store :
                          /\ store[i].token_id = token_id'[p]
                          /\ resp'[p].tokens[1] = store[i]
                    /\ UNCHANGED <<gate, store>>]_vars

\* C11, witness: while a throttle is recorded, a get_token request for the
\* second token of the collection was answered 200 with that token.
C11_Witness ==
    \E p \in Procs :
        /\ pc[p] = "done"
        /\ kind[p] = "get_token"
        /\ outcome[p] = "cached"
        /\ RATE_LIMITED_UNTIL # None
        /\ resp[p].status = 200
        /\ resp[p].tokens[1].token_id = token_id[p]
        /\ Len(store) = 2
        /\ store[2].token_id = token_id[p]

\* C12: a get_token request answers 200 or 404 and nothing else; when the
\* gate is closed it answers 404 from the gate check itself, without
\* recording a call or reaching the upstream call; when the upstream call
\* fails it answers 404.
C12_MissAnswers ==
    [][\A p \in Procs :
          (kind'[p] = "get_token" /\ responds(p))
              => /\ resp'[p].status \in {200, 404}
                 /\ outcome'[p] = "closed"
                       => /\ resp'[p].status = 404
                          /\ pc[p] \in {"gate_rate_limited", "gate_last_call"}
                          /\ UNCHANGED gate
                 /\ outcome'[p] \in Errors => resp'[p].status = 404]_vars

\* C12, witness: one get_token request was answered 404 at the closed
\* gate, another after a failed upstream call.
C12_Witness ==
    \E p, q \in Procs :
        /\ pc[p] = "done" /\ kind[p] = "get_token"
        /\ outcome[p] = "closed" /\ resp[p].status = 404
        /\ pc[q] = "done" /\ kind[q] = "get_token"
        /\ outcome[q] = "err_other" /\ resp[q].status = 404

\* A get_historical_data request answers from the history collection in
\* this step, its gate check having returned false.
answers_from_history(p) ==
    /\ kind[p] = "get_historical_data"
    /\ pc[p] = "history_find"
    /\ responds(p)

\* C13: when a get_historical_data request q has fetched a series and
\* answered, and the history collection is as q's write left it, the next
\* request for the same token that finds the gate closed answers 200 with
\* prices, market_caps and total_volumes equal to what q fetched.
C13_HistoryRoundTrip ==
    [][\A p, q \in Procs :
          (/\ answers_from_history(p)
           /\ pc[q] = "done"
           /\ kind[q] = "get_historical_data"
           /\ outcome[q] = "ok"
           /\ token_id[q] = token_id[p]
           /\ history = upsert_history(history, PriceHistory(token_id[q], Unwrap(data[q]))))
              => /\ resp'[p].status = 200
                 /\ resp'[p].series = Unwrap(data[q])]_vars

\* C14: a get_historical_data request whose gate check returns false
\* makes no upstream call and leaves the gate as it is; it answers 200
\* with the cached series when the history collection holds a document
\* for the token, and 503 with retry_after = 30 when it holds none.
C14_HistoryGateClosed ==
    [][\A p \in Procs :
          /\ (kind[p] = "get_historical_data"
                /\ pc[p] \in {"gate_rate_limited", "gate_last_call"}
                /\ outcome'[p] = "closed")
                => /\ pc'[p] = "history_find"
                   /\ UNCHANGED gate
          /\ answers_from_history(p)
                => /\ UNCHANGED <<gate, history>>
                   /\ IF matching(history, token_id[p]) # {}
                      THEN resp'[p].status = 200
                      ELSE /\ resp'[p].status = 503
                           /\ resp'[p].retry_after = 30]_vars

C16_ToggleFlips ==
    [][\A p \in Procs :
          kind[p] = "toggle_favorite"
              => /\ (pc[p] = "toggle_update" /\ pc'[p] # "toggle_update")
                       => \E i \in DOMAIN store :
                             /\ store[i].token_id = token_id[p]
                             /\ store' = [store EXCEPT ![i].is_favorite = ~store[i].is_favorite]
                 /\ (pc[p] = "toggle_find" /\ responds(p))
                       => /\ resp'[p] = OkTokens(<<[tokens[p][1] EXCEPT !.is_favorite = ~@]>>)
                          /\ find_one(store', token_id[p]) = resp'[p].tokens
                          /\ \A q \in Procs \ {p} :
                                (/\ pc[q] = "done"
                                 /\ kind[q] = "toggle_favorite"
                                 /\ resp[q].status = 200
                                 /\ tokens[p] = resp[q].tokens)
                                    => resp'[p].tokens = tokens[q]]_vars

\* C16, witness: a toggle made eth a favourite, the next toggle found that
\* record and answered with the record the first one had found, which is
\* the record now stored.
C16_Witness ==
    \E p, q \in Procs :
        /\ pc[p] = "done" /\ kind[p] = "toggle_favorite" /\ token_id[p] = "eth"
        /\ pc[q] = "done" /\ kind[q] = "toggle_favorite" /\ token_id[q] = "eth"
        /\ resp[q].status = 200
        /\ resp[q].tokens[1].is_favorite
        /\ tokens[p] = resp[q].tokens
        /\ resp[p].tokens = tokens[q]
        /\ find_one(store, "eth") = tokens[q]

\* C17: a toggle_favorite request for an id the collection has no record
\* of answers 404 at its first step and leaves the collection as it is.
C17_ToggleMissing ==
    [][\A p \in Procs :
          (pc[p] = "idle" /\ kind'[p] = "toggle_favorite"
             /\ \A i \in DOMAIN store : store[i].token_id # token_id'[p])
              => /\ responds(p)
                 /\ resp'[p].status = 404
                 /\ store' = store]_vars

\* C17, witness: the collection holds one token, a toggle of the other
\* was answered 404, and the collection still has no record of it.
C17_Witness ==
    \E p \in Procs :
        /\ pc[p] = "done"
        /\ kind[p] = "toggle_favorite"
        /\ resp[p].status = 404
        /\ Len(store) = 1
        /\ store[1].token_id # token_id[p]

\* A search_tokens request with this q parameter is served in this step.
searches(p, q) == pc[p] = "idle" /\ kind'[p] = "search_tokens" /\ query'[p] = q

\* C18: a search whose q parameter is empty is answered 200 with all the
\* cached tokens.
C18_EmptyQueryMatchesAll ==
    [][\A p \in Procs :
          searches(p, Some(<<>>))
              => /\ resp'[p].status = 200
                 /\ IsSortedCache(resp'[p].tokens, store)]_vars

CasePairs == { {"b", "B"}, {"c", "C"}, {"e", "E"}, {"r", "R"}, {"t", "T"} }
same_letter(a, b) == a = b \/ {a, b} \in CasePairs

\* text has, at some offset, the letters of pattern, case aside.
occurs_in(pattern, text) ==
    \E k \in 0..(Len(text) - Len(pattern)) :
        \A i \in 1..Len(pattern) : same_letter(text[k + i], pattern[i])

matches_query(token, pattern) ==
    \/ occurs_in(pattern, token_name(token))
    \/ occurs_in(pattern, token_symbol(token))
    \/ occurs_in(pattern, token_id_text(token))

\* C20: a search with a non-empty query is answered 200 with exactly the
\* stored tokens whose name, symbol or token_id contains the query, case
\* aside, ordered by market_cap descending.
C20_SearchFilter ==
    [][\A p \in Procs : \A q \in Queries :
          (searches(p, q) /\ q # None /\ q # Some(<<>>))
              => /\ responds(p)
                 /\ resp'[p].status = 200
                 /\ IsSortedCache(resp'[p].tokens,
                        SelectSeq(store, LAMBDA t : matches_query(t, Unwrap(q))))]_vars

\* C20, witness: two searches answered from {bitcoin: 100, eth: 200}:
\* "t" gave both tokens, eth first; "BTC" gave bitcoin alone, by its symbol
\* btc.
C20_Witness ==
    /\ Len(store) = 2
    /\ \E p, r \in Procs :
          /\ pc[p] = "done" /\ kind[p] = "search_tokens"
          /\ query[p] = Some(<<"t">>)
          /\ Len(resp[p].tokens) = 2
          /\ resp[p].tokens[1].token_id = "eth"
          /\ resp[p].tokens[1].market_cap > resp[p].tokens[2].market_cap
          /\ pc[r] = "done" /\ kind[r] = "search_tokens"
          /\ query[r] = Some(<<"B", "T", "C">>)
          /\ Len(resp[r].tokens) = 1
          /\ resp[r].tokens[1].token_id = "bitcoin"

\* C28: when fetch_top_tokens returns an empty list, the step writes
\* nothing to the collection, spawns no task, leaves the gate as it is, and
\* answers with the cached tokens when there are any, else 503 with
\* retry_after = 60.
C28_EmptyFetchFallsThrough ==
    [][\A p \in Procs :
          (kind[p] = "get_tokens" /\ pc[p] = "fetch" /\ outcome'[p] = "empty")
              => /\ responds(p)
                 /\ UNCHANGED <<store, tasks, gate>>
                 /\ IF cached_tokens[p] # <<>>
                    THEN resp'[p].status = 200 /\ resp'[p].tokens = cached_tokens[p]
                    ELSE resp'[p].status = 503 /\ resp'[p].retry_after = 60]_vars

\* C28, witness: after an empty list from upstream, a get_tokens request
\* answered with two cached tokens; no throttle is recorded and no task
\* is pending.
C28_Witness ==
    \E p \in Procs :
        /\ pc[p] = "done"
        /\ kind[p] = "get_tokens"
        /\ outcome[p] = "empty"
        /\ resp[p].status = 200
        /\ Len(resp[p].tokens) = 2
        /\ RATE_LIMITED_UNTIL = None
        /\ \A k \in 1..MaxTasks : tasks[k] = <<>>

answers_stats(p) ==
    pc[p] = "idle" /\ kind'[p] = "get_stats" /\ outcome'[p] = "none" /\ responds(p)

\* The sum of f over the index set I.
RECURSIVE SumOver(_, _)
SumOver(I, f) ==
    IF I = {} THEN 0
    ELSE LET i == CHOOSE j \in I : TRUE IN f[i] + SumOver(I \ {i}, f)

\* C21: get_stats answers 200; total_tokens is the number of stored
\* tokens, total_market_cap and total_volume_24h are the sums over them,
\* avg_price_change_24h is the sum of price_change_percentage_24h divided
\* by their number; with no token stored the count, the sums and the mean
\* are 0 and there is no gainer and no loser.
C21_StatsTotals ==
    [][\A p \in Procs :
          answers_stats(p)
              => LET stats == resp'[p].stats
                     n == Len(store)
                 IN /\ resp'[p].status = 200
                    /\ stats.total_tokens = n
                    /\ stats.total_market_cap
                          = SumOver(DOMAIN store, [i \in DOMAIN store |-> store[i].market_cap])
                    /\ stats.total_volume_24h
                          = SumOver(DOMAIN store, [i \in DOMAIN store |-> store[i].volume_24h])
                    /\ stats.avg_price_change_24h.den # 0
                    /\ stats.avg_price_change_24h.num * (IF n = 0 THEN 1 ELSE n)
                          = stats.avg_price_change_24h.den
                              * SumOver(DOMAIN store,
                                  [i \in DOMAIN store |-> store[i].price_change_percentage_24h])
                    /\ n = 0 => /\ stats.biggest_gainer = None
                                /\ stats.biggest_loser = None
                    /\ n # 0 => /\ IsSome(stats.biggest_gainer)
                                /\ IsSome(stats.biggest_loser)]_vars

\* C21, witness: a get_stats request was answered from two tokens whose
\* changes are 5 and -5: the mean is 0 / 2, the market caps add up to 300
\* and the volumes to 30.
C21_Witness ==
    \E p \in Procs :
        /\ pc[p] = "done" /\ kind[p] = "get_stats" /\ outcome[p] = "none"
        /\ Len(store) = 2
        /\ store[1].price_change_percentage_24h # store[2].price_change_percentage_24h
        /\ resp[p].stats.total_tokens = 2
        /\ resp[p].stats.total_market_cap = 300
        /\ resp[p].stats.total_volume_24h = 30
        /\ resp[p].stats.avg_price_change_24h = [num |-> 0, den |-> 2]

\* C21, the empty case: a get_stats request was answered from an empty
\* collection with the all-zero statistics.
C21_WitnessEmpty ==
    \E p \in Procs :
        /\ pc[p] = "done" /\ kind[p] = "get_stats" /\ outcome[p] = "none"
        /\ store = <<>>
        /\ resp[p].status = 200
        /\ resp[p].stats = EmptyStats

\* The first position of list at which f is v.
first_with(list, f, v) ==
    CHOOSE i \in DOMAIN list : f[i] = v /\ \A j \in DOMAIN list : f[j] = v => i <= j

\* C22: with tokens stored, biggest_gainer is the first token, in the
\* order of the stored tokens sorted by market_cap descending, whose
\* price_change_percentage_24h is the maximum, and biggest_loser the first
\* whose price_change_percentage_24h is the minimum.
C22_FirstOnTies ==
    [][\A p \in Procs :
          (answers_stats(p) /\ store # <<>>)
              => LET list == get_cached_tokens(store)
                     change == [i \in DOMAIN list |-> list[i].price_change_percentage_24h]
                     highest == CHOOSE v \in { change[i] : i \in DOMAIN list } :
                                    \A i \in DOMAIN list : change[i] <= v
                     lowest == CHOOSE v \in { change[i] : i \in DOMAIN list } :
                                    \A i \in DOMAIN list : change[i] >= v
                 IN /\ resp'[p].stats.biggest_gainer
                          = Some(list[first_with(list, change, highest)])
                    /\ resp'[p].stats.biggest_loser
                          = Some(list[first_with(list, change, lowest)])]_vars

\* C25: a request whose find failed is answered as if the collection were
\* empty, never with an error: get_stats with the all-zero statistics,
\* get_favorites with 200 and an empty list.
C25_StoreFailureNotEscalated ==
    [][\A p \in Procs :
          (responds(p) /\ outcome'[p] = "store_err")
              => /\ resp'[p].status = 200
                 /\ kind'[p] = "get_stats" => resp'[p].stats = EmptyStats
                 /\ kind'[p] = "get_favorites" => resp'[p].tokens = <<>>]_vars

\* C27: the step in which get_tokens answers with the fetched list applies
\* no upsert; every iteration of a background task, its update failed or
\* not, leaves every request and every response as it is, writes at most
\* the one token it is at, and goes on to the tokens after it.
C27_FireAndForget ==
    [][/\ \A p \in Procs :
             (kind[p] = "get_tokens" /\ responds(p) /\ outcome'[p] = "ok") => store' = store
       /\ \A k \in 1..MaxTasks :
             (tasks[k] # <<>> /\ tasks'[k] # tasks[k])
                 => /\ tasks'[k] = Tail(tasks[k])
                    /\ UNCHANGED <<pc, resp>>
                    /\ \/ store' = store
                       \/ store' = upsert_token(store, Head(tasks[k]))]_vars

\* C27, witness: the response carries two fetched tokens, the task has
\* ended, the update of the first token failed (the collection has no
\* record of it) and the second token was written all the same.
C27_Witness ==
    \E p \in Procs :
        /\ pc[p] = "done" /\ kind[p] = "get_tokens" /\ outcome[p] = "ok"
        /\ resp[p].status = 200
        /\ Len(resp[p].tokens) = 2
        /\ \A k \in 1..MaxTasks : tasks[k] = <<>>
        /\ matching(store, resp[p].tokens[1].token_id) = {}
        /\ find_one(store, resp[p].tokens[2].token_id) = Some(resp[p].tokens[2])


\* A request that called upstream ends with one of the structured responses:
\* a list of cached tokens, 404, or 503 with a retry hint.
structured(r) ==
    \/ r.status = 200
    \/ r = NotFound
    \/ \E retry \in {RETRY_AFTER_TOKENS, RETRY_AFTER_HISTORY} : r = Unavailable(retry)

\* C23: whatever the upstream replies (nothing, a throttling status,
\* malformed text, history entries that are not [timestamp, value] pairs),
\* no request of get_tokens, get_token or get_historical_data panics, and one
\* that is done holds a structured response.
C23_NoUnhandledFault ==
    \A p \in Procs :
        /\ pc[p] # "panicked"
        /\ pc[p] = "done" => structured(resp[p])

\* What the fetch function of request p returns for the reply it got.
returned(p) ==
    CASE kind[p] = "get_tokens" -> fetch_top_tokens(Unwrap(response[p]))
      [] kind[p] = "get_token" -> fetch_token_details(Unwrap(response[p]), token_id[p])
      [] kind[p] = "get_historical_data" -> fetch_historical_data(Unwrap(response[p]))

\* The upstream attempt of request p got a response that indicates rate
\* limiting: status 429, or an error whose text carries a marker.
indicates_rate_limiting(p) ==
    /\ pc[p] = "fetch"
    /\ IsSome(response[p])
    /\ \/ Unwrap(response[p]).status = 429
       \/ /\ returned(p).result = "err"
          /\ \/ contains(to_lowercase(returned(p).error), <<"4", "2", "9">>)
             \/ contains(to_lowercase(returned(p).error), <<"r", "a", "t", "e">>)

\* C24: in get_tokens, get_token and get_historical_data, a request whose
\* upstream attempt got a response indicating rate limiting goes on to
\* record_rate_limit when the fetch returns, and completes only after
\* RATE_LIMITED_UNTIL was set to now + 60.
C24_RateLimitRecorded ==
    [][\A p \in Procs :
          /\ indicates_rate_limiting(p) /\ pc'[p] # "fetch"
                => pc'[p] = "record_rate_limit"
          /\ pc[p] = "record_rate_limit" /\ pc'[p] # "record_rate_limit"
                => RATE_LIMITED_UNTIL' = Some(now + RATE_LIMIT_BACKOFF_SECS)]_vars

\* C26: a request reaches its fetch only through record_api_call, which
\* it reaches only from a gate check that returned true, and which sets
\* LAST_API_CALL to now; when the fetch returns, whatever it returns,
\* LAST_API_CALL is still set; and a check of the interval made less than
\* MIN_REQUEST_INTERVAL_SECS after the recorded call returns false.
C26_CallRecordedBeforeFetch ==
    [][\A p \in Procs :
          /\ pc'[p] = "record_api_call" /\ pc[p] # "record_api_call"
                => pc[p] = "gate_last_call" /\ ~too_soon(LAST_API_CALL, now)
          /\ pc'[p] = "fetch" /\ pc[p] # "fetch"
                => pc[p] = "record_api_call" /\ LAST_API_CALL' = Some(now)
          /\ pc[p] = "fetch" /\ pc'[p] # "fetch"
                => /\ IsSome(LAST_API_CALL')
                   /\ Unwrap(LAST_API_CALL') <= now
                   /\ LAST_API_CALL' = LAST_API_CALL
          /\ ( /\ pc[p] = "gate_last_call" /\ pc'[p] # "gate_last_call"
               /\ IsSome(LAST_API_CALL)
               /\ now < Unwrap(LAST_API_CALL) + MIN_REQUEST_INTERVAL_SECS )
                => pc'[p] # "record_api_call" /\ outcome'[p] = "closed"]_vars

\* One request's fetch has failed, and the other, checking the gate within
\* the interval after that attempt, was answered without a fetch.
C26_Witness ==
    \E p, q \in Procs :
        /\ pc[p] = "done" /\ outcome[p] = "err_other"
        /\ pc[q] = "done" /\ outcome[q] = "closed" /\ kind[q] = "get_token"
        /\ LAST_API_CALL = Some(0) /\ now = 1
        /\ RATE_LIMITED_UNTIL = None

\* The place of a step in its handler: the gate check, record_api_call,
\* the fetch, and what follows the fetch.
step_of(label) ==
    CASE label = "idle" -> 0
      [] label = "gate_rate_limited" -> 1
      [] label = "gate_last_call" -> 2
      [] label = "record_api_call" -> 3
      [] label = "fetch" -> 4
      [] OTHER -> 5

\* C30: a request never goes back to a step it has left, so it passes
\* record_api_call once at most and its fetch once at most; LAST_API_CALL
\* changes only in the step from record_api_call to the fetch; and a
\* request gets one reply from upstream at most, which it keeps until it
\* has ended.
C30_NoRetry ==
    [][\A p \in Procs :
          /\ pc'[p] # "idle" => step_of(pc'[p]) >= step_of(pc[p])
          /\ LAST_API_CALL' # LAST_API_CALL
                => \E q \in Procs : pc[q] = "record_api_call" /\ pc'[q] = "fetch"
          /\ response'[p] # response[p]
                => \/ pc[p] = "fetch" /\ pc'[p] = "fetch" /\ response[p] = None
                   \/ pc'[p] = "idle" /\ response'[p] = None]_vars

\* A get_tokens request whose only upstream attempt got no reply has been
\* answered 503 after the one call it recorded.
C30_Witness ==
    \E p \in Procs :
        /\ pc[p] = "done" /\ kind[p] = "get_tokens"
        /\ response[p] = Some(NoReply)
        /\ outcome[p] = "err_other"
        /\ resp[p] = Unavailable(RETRY_AFTER_TOKENS)
        /\ LAST_API_CALL = Some(0)

\* The requests that work on the store alone.
LocalKinds == {"search_tokens", "toggle_favorite", "get_favorites", "get_stats"}

\* What each of them answers, from the collection and its own input.
local_response(p) ==
    CASE kind'[p] = "search_tokens" -> search_tokens_response(store, query'[p])
      [] kind'[p] = "get_stats" ->
            OkStats(token_stats(get_cached_tokens(
                IF outcome'[p] = "store_err" THEN <<>> ELSE store)))
      [] kind'[p] = "get_favorites" ->
            IF outcome'[p] = "store_err" THEN DatabaseError
            ELSE OkTokens(SelectSeq(store, LAMBDA t : t.is_favorite))
      [] kind'[p] = "toggle_favorite" ->
            IF find_one(store, token_id'[p]) = None
            THEN IF pc[p] = "idle" THEN NotFound ELSE OkMessage
            ELSE OkTokens(find_one(store, token_id'[p]))

\* C31: a search_tokens, toggle_favorite, get_favorites or get_stats
\* request never stands at a gate check, a record or a fetch and gets no
\* reply from upstream; none of its steps changes LAST_API_CALL or
\* RATE_LIMITED_UNTIL; and its response is a function of the collection
\* and its input, whatever the two timestamps hold.
C31_LocalHandlersLeaveGate ==
    [][\A p \in Procs :
          kind'[p] \in LocalKinds
             => /\ pc'[p] \in {"done", "toggle_update", "toggle_find"}
                /\ response'[p] = None
                /\ pc'[p] # pc[p] => gate' = gate
                /\ pc'[p] = "done" /\ pc[p] # "done" => resp'[p] = local_response(p)]_vars

\* With both timestamps set by a get_tokens request, requests of two of
\* these kinds have been answered.
C31_Witness ==
    /\ IsSome(LAST_API_CALL) /\ IsSome(RATE_LIMITED_UNTIL)
    /\ \E p, q \in Procs :
          /\ pc[p] = "done" /\ kind[p] = "get_stats" /\ resp[p].status = 200
          /\ pc[q] = "done" /\ kind[q] = "search_tokens" /\ resp[q].status = 200

\* C32: both timestamps are absent at the start, and RATE_LIMITED_UNTIL is
\* set only in the record_rate_limit step of a request that passed the
\* gate and whose upstream attempt was answered with the throttling
\* status; no request whose fetch succeeded or failed otherwise sets it.
C32_ThrottleSetOnlyOnThrottle ==
    /\ LAST_API_CALL = None /\ RATE_LIMITED_UNTIL = None
    /\ [][RATE_LIMITED_UNTIL' # RATE_LIMITED_UNTIL
            => \E p \in Procs :
                  /\ pc[p] = "record_rate_limit"
                  /\ IsSome(response[p])
                  /\ Unwrap(response[p]).status = 429]_vars

\* C33, as claimed: a toggle_favorite request for an id the collection has
\* no record of creates the record.
C33_CreatedOnToggleMiss ==
    [][\A p \in Procs :
          (pc[p] = "idle" /\ kind'[p] = "toggle_favorite"
             /\ matching(store, token_id'[p]) = {})
              => matching(store', token_id'[p]) # {}]_vars

\* C33, amended: the record of a token_id is created only by the upsert
\* that follows a successful fetch, in get_token or in the background task
\* of get_tokens; no step of a toggle_favorite request creates one.
C33_CreatedOnlyByFetch ==
    [][\A id \in TokenIds :
          matching(store, id) = {} /\ matching(store', id) # {}
             => \/ \E p \in Procs :
                      /\ kind[p] = "get_token" /\ pc[p] = "persist"
                      /\ tokens[p][1].token_id = id
                \/ \E k \in 1..MaxTasks :
                      /\ tasks[k] # <<>> /\ Head(tasks[k]).token_id = id
                      /\ tasks'[k] = Tail(tasks[k])]_vars

\* A fetch has created the record of one token, and a toggle of the other
\* has been answered while the collection still holds no record of it.
C33_Witness ==
    \E p, q \in Procs :
        /\ pc[q] = "done" /\ kind[q] = "get_token" /\ outcome[q] = "ok"
        /\ matching(store, token_id[q]) # {}
        /\ pc[p] = "done" /\ kind[p] = "toggle_favorite"
        /\ matching(store, token_id[p]) = {}

\* The stored document holds, in this field, exactly the points of the
\* series, whichever BSON form they were written in.
holds_series(document, field, tuples) ==
    /\ field \in DOMAIN document
    /\ Len(document[field]) = Len(tuples)
    /\ \A i \in DOMAIN tuples :
          document[field][i].t = tuples[i][1] /\ document[field][i].p = tuples[i][2]

\* C34: the history collection holds at most one document per token_id,
\* and after the save of a get_historical_data request the document of
\* its token holds exactly the prices, market_caps and total_volumes that
\* the request fetched.
C34_HistoryReplacedWholesale ==
    /\ [](\A id \in TokenIds : Cardinality(matching(history, id)) <= 1)
    /\ [][\A p \in Procs :
            pc[p] = "history_save" /\ pc'[p] # "history_save"
               => LET fetched == PriceHistory(token_id[p], Unwrap(data[p]))
                      stored == history'[first_match(history', token_id[p])]
                  IN /\ matching(history', token_id[p]) # {}
                     /\ holds_series(stored, "prices", fetched.prices)
                     /\ holds_series(stored, "market_caps", fetched.market_caps)
                     /\ holds_series(stored, "total_volumes", fetched.total_volumes)]_vars

\* C35: toggles of one token that overlap.  Every update flips the
\* is_favorite the record holds when it is applied, so that n completed
\* toggles leave the original value flipped n times, and every response
\* carries the value its request wrote.
C35_ToggleAtomic ==
    [][\A p \in Procs :
          kind[p] = "toggle_favorite"
              => /\ (pc[p] = "toggle_update" /\ pc'[p] # "toggle_update")
                       => Unwrap(find_one(store', token_id[p])).is_favorite
                             = ~Unwrap(find_one(store, token_id[p])).is_favorite
                 /\ (pc[p] = "toggle_find" /\ responds(p))
                       => /\ resp'[p].status = 200
                          /\ resp'[p].tokens[1].is_favorite = new_favorite[p]]_vars

\* C36: a write of a background task never puts older market fields in
\* the place of newer ones, and once no background write is pending no
\* stored token is older than the snapshot a completed get_tokens request
\* fetched.
C36_FreshnessNeverRegresses ==
    /\ [][\A i \in DOMAIN store : store'[i].market_cap >= store[i].market_cap]_vars
    /\ [](\A p \in Procs :
            (/\ \A k \in DOMAIN tasks : tasks[k] = <<>>
             /\ pc[p] = "done" /\ kind[p] = "get_tokens" /\ outcome[p] = "ok")
                => \A j \in DOMAIN tokens[p] :
                      /\ IsSome(find_one(store, tokens[p][j].token_id))
                      /\ Unwrap(find_one(store, tokens[p][j].token_id)).market_cap
                            >= tokens[p][j].market_cap)

\* C37: every token of a response that get_tokens or get_token serves
\* from a successful fetch has is_favorite = false, whatever the stored
\* record of the token says; a response served from the cache carries the
\* records as they were read, is_favorite included.
C37_FetchedNotFavorite ==
    [][\A p \in Procs :
          /\ (kind[p] = "get_tokens" /\ pc[p] = "fetch" /\ outcome'[p] = "ok")
                => /\ resp'[p].status = 200
                   /\ Len(resp'[p].tokens) = Len(tokens'[p])
                   /\ \A i \in DOMAIN resp'[p].tokens : ~resp'[p].tokens[i].is_favorite
          /\ (kind[p] = "get_token" /\ pc[p] = "persist" /\ responds(p))
                => /\ resp'[p].status = 200
                   /\ Len(resp'[p].tokens) = 1
                   /\ ~resp'[p].tokens[1].is_favorite
          /\ (kind[p] = "get_tokens" /\ responds(p) /\ outcome'[p] # "ok"
                /\ resp'[p].status = 200)
                => resp'[p].tokens = cached_tokens[p]
          /\ (kind'[p] = "get_token" /\ responds(p) /\ outcome'[p] = "cached")
                => resp'[p].tokens = find_one(store, token_id'[p])]_vars

\* eth is stored as a favourite, and a get_tokens request has answered
\* with a fetched list in which eth is not one.
C37_Witness ==
    \E p \in Procs :
        /\ pc[p] = "done" /\ kind[p] = "get_tokens" /\ outcome[p] = "ok"
        /\ \E i \in DOMAIN resp[p].tokens :
              /\ resp[p].tokens[i].token_id = "eth"
              /\ ~resp[p].tokens[i].is_favorite
        /\ IsSome(find_one(store, "eth"))
        /\ Unwrap(find_one(store, "eth")).is_favorite

\* The labels of each gate function, waiting or holding.
InCanMakeApiCall ==
    {"gate_rate_limited", "gate_rate_limited_locked", "gate_last_call", "gate_last_call_locked"}
InRecordApiCall == {"record_api_call", "record_api_call_locked"}
InRecordRateLimit == {"record_rate_limit", "record_rate_limit_locked"}

\* C38: no request waits for a mutex while it holds a guard; a mutex a
\* request waits for is free or held by a request that is about to release
\* it; and every call of can_make_api_call, record_api_call and
\* record_rate_limit returns.
C38_NoHoldAndWait ==
    /\ [](\A p \in Procs : \A m \in Locks :
            /\ held[m] = Some(p) => pc[p] \in LockedLabels /\ pc[p] \notin WaitLabels
            /\ pc[p] \in WaitLabels /\ waits_for(pc[p]) = m
                  => \/ held[m] = None
                     \/ \E q \in Procs \ {p} : held[m] = Some(q) /\ pc[q] \in LockedLabels)
    /\ \A p \in Procs :
          /\ (pc[p] \in InCanMakeApiCall) ~> (pc[p] \notin InCanMakeApiCall)
          /\ (pc[p] \in InRecordApiCall) ~> (pc[p] \notin InRecordApiCall)
          /\ (pc[p] \in InRecordRateLimit) ~> (pc[p] \notin InRecordRateLimit)

\* One request holds RATE_LIMITED_UNTIL in record_rate_limit and the other,
\* having released it in can_make_api_call, holds LAST_API_CALL.
C38_Witness ==
    \E p, q \in Procs :
        /\ held["RATE_LIMITED_UNTIL"] = Some(p) /\ pc[p] = "record_rate_limit_locked"
        /\ held["LAST_API_CALL"] = Some(q) /\ pc[q] = "gate_last_call_locked"

\* C39: the steps of can_make_api_call leave LAST_API_CALL and
\* RATE_LIMITED_UNTIL as they are; record_api_call sets LAST_API_CALL and
\* leaves RATE_LIMITED_UNTIL; record_rate_limit sets RATE_LIMITED_UNTIL and
\* leaves LAST_API_CALL; none of them writes to a collection.
C39_GateOperationsFrame ==
    [][\A p \in Procs :
          /\ (pc[p] \in {"gate_rate_limited", "gate_last_call"} /\ pc'[p] # pc[p])
                => /\ LAST_API_CALL' = LAST_API_CALL
                   /\ RATE_LIMITED_UNTIL' = RATE_LIMITED_UNTIL
                   /\ UNCHANGED <<store, history, tasks>>
          /\ (pc[p] = "record_api_call" /\ pc'[p] # pc[p])
                => /\ LAST_API_CALL' = Some(now)
                   /\ RATE_LIMITED_UNTIL' = RATE_LIMITED_UNTIL
                   /\ UNCHANGED <<store, history, tasks>>
          /\ (pc[p] = "record_rate_limit" /\ pc'[p] # pc[p])
                => /\ RATE_LIMITED_UNTIL' = Some(now + RATE_LIMIT_BACKOFF_SECS)
                   /\ LAST_API_CALL' = LAST_API_CALL
                   /\ UNCHANGED <<store, history, tasks>>]_vars

\* A call was recorded at time 0 and a throttle at time 1: each field
\* holds what its own operation wrote.
C39_Witness ==
    /\ LAST_API_CALL = Some(0)
    /\ RATE_LIMITED_UNTIL = Some(1 + RATE_LIMIT_BACKOFF_SECS)
    /\ \E p \in Procs : pc[p] = "done" /\ outcome[p] = "err_rate"

\* C40: in no step does the clock go back, and in no step does a set
\* LAST_API_CALL or RATE_LIMITED_UNTIL become absent or smaller: a window
\* that has expired stays set, and a later throttle only moves it on.
C40_GateMonotone ==
    [][/\ now' >= now
       /\ IsSome(LAST_API_CALL)
             => IsSome(LAST_API_CALL') /\ Unwrap(LAST_API_CALL') >= Unwrap(LAST_API_CALL)
       /\ IsSome(RATE_LIMITED_UNTIL)
             => /\ IsSome(RATE_LIMITED_UNTIL')
                /\ Unwrap(RATE_LIMITED_UNTIL') >= Unwrap(RATE_LIMITED_UNTIL)]_vars

\* The window of a throttle recorded at time 0 has expired and is still
\* set, a call has been recorded after its end, and a second throttle has
\* been asked for.
C40_Witness ==
    /\ RATE_LIMITED_UNTIL = Some(RATE_LIMIT_BACKOFF_SECS)
    /\ IsSome(LAST_API_CALL)
    /\ Unwrap(LAST_API_CALL) >= RATE_LIMIT_BACKOFF_SECS
    /\ \E p \in Procs : pc[p] = "record_rate_limit"

=============================================================================
